---- MODULE Spec2Model ----
(***************************************************************************)
(* forecast-sense: the client-side aggregation, correlation and threshold  *)
(* arithmetic of the dashboard components, modelled from the TypeScript    *)
(* sources.                                                                *)
(*                                                                         *)
(* A JavaScript value is a record [t, n, d, s]:                            *)
(*   t = "undefined"                      the value undefined              *)
(*   t = "number"    n/d, d > 0, reduced  a finite number (exact rational) *)
(*   t = "NaN"                            the number NaN                   *)
(*   t = "Infinity"  n = 1 or -1          +Infinity or -Infinity           *)
(*   t = "string"    s = characters       a string                         *)
(* The averaging views compute on exact rationals; the correlation         *)
(* coefficient is computed in IEEE-754 binary64, every operation rounded.  *)
(* A Date is the number of its local calendar day (days since 1970-01-01), *)
(* or -1 for an Invalid Date; the time of day is not modelled.             *)
(***************************************************************************)
EXTENDS Integers, Sequences, FiniteSets

VARIABLES
    predictionsData,  \* Index: useState<any[]>([]), the `data` prop of every view
    eventsData,       \* Index: useState<any[]>([]), ExternalEventsChart's prop
    eventsDefined,    \* whether the events state holds an array (then eventsData
                      \* is that array) or undefined
    selectedMetric,   \* ExternalEventsChart: useState('cpu')
    eventFilter,      \* ExternalEventsChart: useState('all')
    today,            \* the day `new Date()` returns when the calendar renders
    showFileUpload,   \* Index: useState(false), whether the FileUpload modal is mounted
    predictionFile,   \* FileUpload: useState<FileStatus | null>(null)
    parsing,          \* the files handed to Papa.parse whose callback has not run yet
    selectedDate,     \* Index: useState<Date>(), the day picked in the calendar
    lastDropped,      \* history: the name of the file dropped last in the open dialog
    out               \* the component rendered last and what it computed

vars ==
    <<predictionsData, eventsData, eventsDefined, selectedMetric, eventFilter, today,
      showFileUpload, predictionFile, parsing, selectedDate, lastDropped, out>>

(***************************************************************************)
(* JavaScript values and arithmetic                                        *)
(*                                                                         *)
(* With(v, F) is F(v) with v evaluated once: the operators below use each  *)
(* operand many times, and an operand is often itself a long computation.  *)
(***************************************************************************)
With(v, F(_)) == CHOOSE r \in {F(x) : x \in {v}} : TRUE

With2(a, b, F(_, _)) == CHOOSE r \in {F(x, y) : x \in {a}, y \in {b}} : TRUE

Abs(x) == IF x < 0 THEN -x ELSE x

Sign(x) == IF x < 0 THEN -1 ELSE IF x > 0 THEN 1 ELSE 0

RECURSIVE GCD(_, _)
GCD(a, b) == IF b = 0 THEN a ELSE GCD(b, a % b)

UNDEF == [t |-> "undefined", n |-> 0, d |-> 1, s |-> <<>>]

NAN == [t |-> "NaN", n |-> 0, d |-> 1, s |-> <<>>]

Inf(sign) == [t |-> "Infinity", n |-> sign, d |-> 1, s |-> <<>>]

Str(chars) == [t |-> "string", n |-> 0, d |-> 1, s |-> chars]

Num(n) == [t |-> "number", n |-> n, d |-> 1, s |-> <<>>]

\* the finite number n/d (d # 0), reduced
Rat(n, d) ==
    With2(GCD(Abs(n), Abs(d)), IF d < 0 THEN -1 ELSE 1,
          LAMBDA g, sg : [t |-> "number", n |-> sg * (n \div g),
                          d |-> sg * (d \div g), s |-> <<>>])

IsNumeric(v) == v.t \in {"number", "NaN", "Infinity"}

Digits == <<"0", "1", "2", "3", "4", "5", "6", "7", "8", "9">>

IsDigit(c) == \E i \in 1..10 : Digits[i] = c

DigitVal(c) == (CHOOSE i \in 1..10 : Digits[i] = c) - 1

RECURSIVE NatToString(_)
NatToString(n) ==
    IF n < 10 THEN <<Digits[n + 1]>>
    ELSE NatToString(n \div 10) \o <<Digits[(n % 10) + 1]>>

\* the digits of the fraction r/d (0 <= r < d), at most `left` of them
RECURSIVE FractionDigits(_, _, _)
FractionDigits(r, d, left) ==
    IF r = 0 \/ left = 0 THEN <<>>
    ELSE <<Digits[((r * 10) \div d) + 1]>> \o FractionDigits((r * 10) % d, d, left - 1)

\* the decimal digits of the finite number v
NumberToString(v) ==
    With(FractionDigits(Abs(v.n) % v.d, v.d, 17),
         LAMBDA frac : (IF v.n < 0 THEN <<"-">> ELSE <<>>)
                          \o NatToString(Abs(v.n) \div v.d)
                          \o (IF frac = <<>> THEN <<>> ELSE <<".">> \o frac))

InfinityChars == <<"I", "n", "f", "i", "n", "i", "t", "y">>

\* String(v): ECMAScript ToString
ToString(value) ==
    With(value, LAMBDA v :
        CASE v.t = "string" -> v.s
          [] v.t = "undefined" -> <<"u", "n", "d", "e", "f", "i", "n", "e", "d">>
          [] v.t = "NaN" -> <<"N", "a", "N">>
          [] v.t = "Infinity" -> (IF v.n < 0 THEN <<"-">> ELSE <<>>) \o InfinityChars
          [] v.t = "number" -> NumberToString(v))

\* the number of digits of s at the positions i, i + 1, ...
RECURSIVE DigitRunLength(_, _)
DigitRunLength(s, i) ==
    IF i <= Len(s) /\ IsDigit(s[i]) THEN 1 + DigitRunLength(s, i + 1) ELSE 0

\* the number the digits s[from .. to] write
RECURSIVE DigitsToNat(_, _, _)
DigitsToNat(s, from, to) ==
    IF to < from THEN 0 ELSE DigitsToNat(s, from, to - 1) * 10 + DigitVal(s[to])

RECURSIVE Pow10(_)
Pow10(k) == IF k = 0 THEN 1 ELSE 10 * Pow10(k - 1)

\* the decimal literal at the start of the characters s: [ok, v, end], end being
\* the first index it does not use
DecimalPrefix(s) ==
    With(IF Len(s) >= 1 /\ s[1] \in {"-", "+"} THEN 2 ELSE 1, LAMBDA i0 :
    With(DigitRunLength(s, i0), LAMBDA ni :
    With(IF i0 + ni <= Len(s) /\ s[i0 + ni] = "."
         THEN DigitRunLength(s, i0 + ni + 1) ELSE 0, LAMBDA nf :
        IF ni = 0 /\ nf = 0
        THEN [ok |-> FALSE, v |-> NAN, end |-> 1]
        ELSE [ok |-> TRUE,
              v |-> Rat((IF s[1] = "-" THEN -1 ELSE 1)
                            * (DigitsToNat(s, i0, i0 + ni - 1) * Pow10(nf)
                               + DigitsToNat(s, i0 + ni + 1, i0 + ni + nf)),
                        Pow10(nf)),
              end |-> IF nf > 0 \/ (i0 + ni <= Len(s) /\ s[i0 + ni] = ".")
                      THEN i0 + ni + 1 + nf ELSE i0 + ni])))

\* parseFloat of the characters s
ParseFloatChars(s) ==
    CASE Len(s) >= 8 /\ SubSeq(s, 1, 8) = InfinityChars -> Inf(1)
      [] Len(s) >= 9 /\ SubSeq(s, 1, 9) = <<"-">> \o InfinityChars -> Inf(-1)
      [] OTHER -> DecimalPrefix(s).v

\* parseFloat(v): the argument is converted to a string, then its numeric prefix
parseFloat(value) ==
    With(value, LAMBDA v :
        IF IsNumeric(v) THEN v ELSE With(ToString(v), LAMBDA s : ParseFloatChars(s)))

\* Number of the non-empty characters s: the whole text must be a number
CharsToNumber(s) ==
    With(DecimalPrefix(s), LAMBDA p : IF p.ok /\ p.end = Len(s) + 1 THEN p.v ELSE NAN)

\* Number(v): ECMAScript ToNumber, applied by the operators - * / >
ToNumber(value) ==
    With(value, LAMBDA v :
        CASE IsNumeric(v) -> v
          [] v.t = "undefined" -> NAN
          [] v.t = "string" -> IF v.s = <<>> THEN Num(0) ELSE CharsToNumber(v.s))

\* ToBoolean(v)
Truthy(value) ==
    With(value, LAMBDA v :
        CASE v.t = "undefined" -> FALSE
          [] v.t = "NaN" -> FALSE
          [] v.t = "Infinity" -> TRUE
          [] v.t = "number" -> v.n # 0
          [] v.t = "string" -> v.s # <<>>)

\* a || b
Or(a, b) == With(a, LAMBDA x : IF Truthy(x) THEN x ELSE b)

NumSign(a) == IF a.t \in {"number", "Infinity"} THEN Sign(a.n) ELSE 0

\* a + b on numbers
NumAdd(a, b) ==
    CASE a.t = "NaN" \/ b.t = "NaN" -> NAN
      [] a.t = "Infinity" /\ b.t = "Infinity" -> IF a.n = b.n THEN a ELSE NAN
      [] a.t = "Infinity" -> a
      [] b.t = "Infinity" -> b
      [] OTHER -> Rat(a.n * b.d + b.n * a.d, a.d * b.d)

\* -a on a number
NumNeg(a) ==
    CASE a.t = "number" -> [a EXCEPT !.n = -a.n]
      [] a.t = "Infinity" -> Inf(-a.n)
      [] OTHER -> a

\* a * b on numbers
NumMul(a, b) ==
    CASE a.t = "NaN" \/ b.t = "NaN" -> NAN
      [] a.t = "Infinity" \/ b.t = "Infinity" ->
            IF NumSign(a) * NumSign(b) = 0 THEN NAN ELSE Inf(NumSign(a) * NumSign(b))
      [] OTHER -> Rat(a.n * b.n, a.d * b.d)

\* a / b on numbers
NumDiv(a, b) ==
    CASE a.t = "NaN" \/ b.t = "NaN" -> NAN
      [] a.t = "Infinity" /\ b.t = "Infinity" -> NAN
      [] a.t = "Infinity" -> Inf(a.n * (IF NumSign(b) < 0 THEN -1 ELSE 1))
      [] b.t = "Infinity" -> Num(0)
      [] b.n = 0 -> IF a.n = 0 THEN NAN ELSE Inf(Sign(a.n))
      [] OTHER -> Rat(a.n * b.d, a.d * b.n)

\* a > b on numbers (false when either is NaN)
NumGt(a, b) ==
    CASE a.t = "NaN" \/ b.t = "NaN" -> FALSE
      [] a.t = "Infinity" /\ b.t = "Infinity" -> a.n > b.n
      [] a.t = "Infinity" -> a.n > 0
      [] b.t = "Infinity" -> b.n < 0
      [] OTHER -> a.n * b.d > b.n * a.d

\* a + b: string concatenation as soon as one operand is a string
Plus(a, b) ==
    With2(a, b, LAMBDA x, y :
        IF x.t = "string" \/ y.t = "string"
        THEN Str(ToString(x) \o ToString(y))
        ELSE With2(ToNumber(x), ToNumber(y), LAMBDA p, q : NumAdd(p, q)))

\* a - b, a * b, a / b: both operands converted to numbers
Minus(a, b) == With2(ToNumber(a), ToNumber(b), LAMBDA p, q : NumAdd(p, NumNeg(q)))

Times(a, b) == With2(ToNumber(a), ToNumber(b), LAMBDA p, q : NumMul(p, q))

Div(a, b) == With2(ToNumber(a), ToNumber(b), LAMBDA p, q : NumDiv(p, q))

\* a > b where one operand is a number: both are converted to numbers
Gt(a, b) == With2(ToNumber(a), ToNumber(b), LAMBDA p, q : NumGt(p, q))

\* Math.round(x): to the nearest integer, halves towards +Infinity
MathRound(value) ==
    With(value, LAMBDA a :
        IF a.t # "number" THEN a ELSE Num((2 * a.n + a.d) \div (2 * a.d)))

\* Math.max(0, x)
MathMax0(value) ==
    With(value, LAMBDA a :
        IF a.t = "NaN" THEN a ELSE IF NumGt(Num(0), a) THEN Num(0) ELSE a)

\* Math.ceil(x)
MathCeil(value) ==
    With(value, LAMBDA a : IF a.t # "number" THEN a ELSE Num(-((-a.n) \div a.d)))

\* whether x.toFixed exists: it does on numbers only, so that calling it on a
\* string raises a TypeError
HasToFixed(v) == IsNumeric(v)

\* the decimal string of scaled / 10^k with exactly k fraction digits
FixedDigits(scaled, k) ==
    NatToString(scaled \div Pow10(k))
        \o (IF k = 0 THEN <<>> ELSE <<".">> \o Tail(NatToString(Pow10(k) + (scaled % Pow10(k)))))

\* x.toFixed(k) for a number x: the decimal string with exactly k fraction digits
\* of the nearest multiple of 10^-k, halves away from zero
toFixed(value, k) ==
    With(value, LAMBDA v :
        IF v.t # "number" THEN Str(ToString(v))
        ELSE With((2 * Abs(v.n) * Pow10(k) + v.d) \div (2 * v.d), LAMBDA scaled :
                Str((IF v.n < 0 THEN <<"-">> ELSE <<>>) \o FixedDigits(scaled, k))))

(***************************************************************************)
(* IEEE-754 binary64 arithmetic                                            *)
(*                                                                         *)
(* The correlation coefficient is a quotient of rounded sums, so its value *)
(* depends on the rounding of every operation.  A double is                *)
(* [k, sg, m, e]: k = "finite" is the number sg * m * 2^e, m a natural     *)
(* number below 2^53 that is odd, or zero with e = 0 and sg = 1; k = "NaN" *)
(* and k = "Infinity" (sg = 1 or -1) are the other values.  Each operation *)
(* rounds its exact result to the nearest double, ties to even.  Exponent  *)
(* overflow and subnormal numbers are out of the reach of the inputs and   *)
(* are not modelled; the sign of a zero is not kept.                       *)
(*                                                                         *)
(* A natural number is a sequence of limbs in base 2^15, least significant *)
(* first, without leading zero limbs (the empty sequence is 0).            *)
(***************************************************************************)
LimbBase == 2^15

RECURSIVE BigFromNat(_)
BigFromNat(n) == IF n = 0 THEN <<>> ELSE <<n % LimbBase>> \o BigFromNat(n \div LimbBase)

RECURSIVE BigTrim(_)
BigTrim(a) ==
    IF a = <<>> THEN <<>>
    ELSE IF a[Len(a)] = 0 THEN BigTrim(SubSeq(a, 1, Len(a) - 1)) ELSE a

Limb(a, i) == IF i <= Len(a) THEN a[i] ELSE 0

RECURSIVE BigAddFrom(_, _, _, _)
BigAddFrom(a, b, i, carry) ==
    IF i > Len(a) /\ i > Len(b) THEN (IF carry = 0 THEN <<>> ELSE <<carry>>)
    ELSE LET t == Limb(a, i) + Limb(b, i) + carry
         IN <<t % LimbBase>> \o BigAddFrom(a, b, i + 1, t \div LimbBase)

BigAdd(a, b) == BigAddFrom(a, b, 1, 0)

RECURSIVE BigSubFrom(_, _, _, _)
BigSubFrom(a, b, i, borrow) ==
    IF i > Len(a) THEN <<>>
    ELSE LET t == Limb(a, i) - Limb(b, i) - borrow
         IN <<t % LimbBase>> \o BigSubFrom(a, b, i + 1, IF t < 0 THEN 1 ELSE 0)

\* a - b for a >= b
BigSub(a, b) == BigTrim(BigSubFrom(a, b, 1, 0))

RECURSIVE BigCmpFrom(_, _, _)
BigCmpFrom(a, b, i) ==
    IF i = 0 THEN 0
    ELSE IF a[i] # b[i] THEN Sign(a[i] - b[i]) ELSE BigCmpFrom(a, b, i - 1)

\* -1, 0 or 1 as a < b, a = b or a > b
BigCmp(a, b) ==
    IF Len(a) # Len(b) THEN Sign(Len(a) - Len(b)) ELSE BigCmpFrom(a, b, Len(a))

RECURSIVE BigMulSmallFrom(_, _, _, _)
BigMulSmallFrom(a, k, i, carry) ==
    IF i > Len(a) THEN (IF carry = 0 THEN <<>> ELSE <<carry>>)
    ELSE LET t == a[i] * k + carry
         IN <<t % LimbBase>> \o BigMulSmallFrom(a, k, i + 1, t \div LimbBase)

\* a * k for a limb k
BigMulSmall(a, k) == IF k = 0 THEN <<>> ELSE BigMulSmallFrom(a, k, 1, 0)

RECURSIVE BigMulFrom(_, _, _)
BigMulFrom(a, b, j) ==
    IF j > Len(b) THEN <<>>
    ELSE BigAdd(BigMulSmall(a, b[j]), <<0>> \o BigMulFrom(a, b, j + 1))

BigMul(a, b) == BigTrim(BigMulFrom(a, b, 1))

\* a * 2^n
BigShl(a, n) ==
    IF a = <<>> THEN <<>>
    ELSE [i \in 1..(n \div 15) |-> 0] \o BigMulSmall(a, 2^(n % 15))

\* the limbs of a / p rounded down, for a power of two p below the limb base
BigDivPow2(a, p) ==
    BigTrim([i \in 1..Len(a) |-> (a[i] \div p) + (Limb(a, i + 1) % p) * (LimbBase \div p)])

\* a / 2^n rounded down
BigShr(a, n) ==
    IF n \div 15 >= Len(a) THEN <<>>
    ELSE BigDivPow2(SubSeq(a, (n \div 15) + 1, Len(a)), 2^(n % 15))

RECURSIVE BitLength(_)
BitLength(n) == IF n = 0 THEN 0 ELSE 1 + BitLength(n \div 2)

\* the number of bits of a
BigBitLen(a) == IF a = <<>> THEN 0 ELSE 15 * (Len(a) - 1) + BitLength(a[Len(a)])

RECURSIVE TrailingZeros(_)
TrailingZeros(n) == IF n % 2 = 1 THEN 0 ELSE 1 + TrailingZeros(n \div 2)

\* the number of zero bits at the low end of a # 0
RECURSIVE BigTrailingZeros(_, _)
BigTrailingZeros(a, i) ==
    IF a[i] = 0 THEN 15 + BigTrailingZeros(a, i + 1) ELSE TrailingZeros(a[i])

BigIsOdd(a) == a # <<>> /\ a[1] % 2 = 1

\* the limb g with g * d <= r < (g + 1) * d, for r < d * 2^15 and a divisor d whose
\* highest limb is at least 2^14: the quotient of the two highest limbs of r by
\* the highest limb of d is g, g + 1 or g + 2
QuotientLimb(r, d) ==
    LET top == Limb(r, Len(d) + 1) * LimbBase + Limb(r, Len(d))
        est == IF top \div d[Len(d)] >= LimbBase THEN LimbBase - 1 ELSE top \div d[Len(d)]
    IN IF BigCmp(BigMulSmall(d, est), r) <= 0 THEN est
       ELSE IF BigCmp(BigMulSmall(d, est - 1), r) <= 0 THEN est - 1
       ELSE est - 2

\* one step of the long division by d: the limb `limb` of the dividend comes
\* under the remainder r, and the quotient q gains the limb g
BigDivStep(d, limb, q, r) ==
    LET r2 == BigTrim(<<limb>> \o r)
        g == QuotientLimb(r2, d)
    IN <<BigTrim(<<g>> \o q), BigSub(r2, BigMulSmall(d, g))>>

\* the long division of n by d from limb j of n downwards, q and r being the
\* quotient and the remainder of the limbs above
RECURSIVE BigDivFrom(_, _, _, _, _)
BigDivFrom(n, d, j, q, r) ==
    IF j = 0 THEN q
    ELSE With(BigDivStep(d, n[j], q, r), LAMBDA s : BigDivFrom(n, d, j - 1, s[1], s[2]))

\* n / d rounded down, for d # 0: both are first scaled for the highest limb of
\* the divisor to be at least 2^14; the limbs of n above the length of d make a
\* number below d, the first remainder
BigDiv(n, d) ==
    With2(BigShl(n, 15 * Len(d) - BigBitLen(d)), BigShl(d, 15 * Len(d) - BigBitLen(d)),
          LAMBDA ns, ds :
            IF Len(ns) < Len(ds) THEN <<>>
            ELSE BigDivFrom(ns, ds, Len(ns) - Len(ds) + 1, <<>>,
                            SubSeq(ns, Len(ns) - Len(ds) + 2, Len(ns))))

\* Newton's iteration for the square root of n rounded down, from x above it
RECURSIVE BigSqrtFrom(_, _)
BigSqrtFrom(n, x) ==
    With(BigShr(BigAdd(x, BigDiv(n, x)), 1), LAMBDA y :
        IF BigCmp(y, x) >= 0 THEN x ELSE BigSqrtFrom(n, y))

\* the square root of t < 2^30 rounded down, between lo and hi
RECURSIVE SqrtBetween(_, _, _)
SqrtBetween(t, lo, hi) ==
    IF lo = hi THEN lo
    ELSE LET mid == (lo + hi + 1) \div 2
         IN IF mid * mid <= t THEN SqrtBetween(t, mid, hi) ELSE SqrtBetween(t, lo, mid - 1)

\* a number above the square root of n # 0, from the one or two highest limbs of
\* n, which stand above an even number `low` of limbs
SqrtGuess(n, low) ==
    BigShl(BigFromNat(SqrtBetween(Limb(n, low + 2) * LimbBase + n[low + 1], 0, LimbBase - 1) + 1),
           15 * (low \div 2))

\* the square root of n rounded down
BigSqrt(n) ==
    IF n = <<>> THEN <<>>
    ELSE With(SqrtGuess(n, 2 * ((Len(n) - 1) \div 2)), LAMBDA x : BigSqrtFrom(n, x))

Dbl(sg, m, e) == [k |-> "finite", sg |-> sg, m |-> m, e |-> e]

DZero == Dbl(1, <<>>, 0)

DNaN == [k |-> "NaN", sg |-> 1, m |-> <<>>, e |-> 0]

DInf(sg) == [k |-> "Infinity", sg |-> sg, m |-> <<>>, e |-> 0]

\* the double sg * m * 2^e for m below 2^53
DNormal(sg, m, e) ==
    IF m = <<>> THEN DZero
    ELSE With(BigTrailingZeros(m, 1), LAMBDA tz : Dbl(sg, BigShr(m, tz), e + tz))

\* q, or q + 1, for the quotient q of m by 2^s: the nearest, ties to even, `sticky`
\* telling that the number rounded is above m
RoundedQuotient(m, s, q, sticky) ==
    With(BigCmp(BigSub(m, BigShl(q, s)), BigShl(<<1>>, s - 1)), LAMBDA c :
        IF c > 0 \/ (c = 0 /\ (sticky \/ BigIsOdd(q))) THEN BigAdd(q, <<1>>) ELSE q)

\* the double nearest to sg * x * 2^e, where x = m when ~sticky and m < x < m + 1
\* when sticky (m then has more than 53 bits)
DRound(sg, m, e, sticky) ==
    With(BigBitLen(m) - 53, LAMBDA s :
        IF s <= 0 THEN DNormal(sg, m, e)
        ELSE DNormal(sg, RoundedQuotient(m, s, BigShr(m, s), sticky), e + s))

\* the integer n as a double
DFromInt(n) == DRound(Sign(n), BigFromNat(Abs(n)), 0, FALSE)

\* -a
DNeg(a) == IF a.k = "NaN" \/ a = DZero THEN a ELSE [a EXCEPT !.sg = -a.sg]

\* the finite sum sa * ma * 2^e + sb * mb * 2^e
DAddAligned(sa, ma, sb, mb, e) ==
    IF sa = sb THEN DRound(sa, BigAdd(ma, mb), e, FALSE)
    ELSE IF BigCmp(ma, mb) >= 0 THEN DRound(sa, BigSub(ma, mb), e, FALSE)
         ELSE DRound(sb, BigSub(mb, ma), e, FALSE)

\* a + b
DAdd(a, b) ==
    CASE a.k = "NaN" \/ b.k = "NaN" -> DNaN
      [] a.k = "Infinity" /\ b.k = "Infinity" -> IF a.sg = b.sg THEN a ELSE DNaN
      [] a.k = "Infinity" -> a
      [] b.k = "Infinity" -> b
      [] a = DZero -> b
      [] b = DZero -> a
      [] OTHER ->
            With(IF a.e < b.e THEN a.e ELSE b.e, LAMBDA e :
                DAddAligned(a.sg, BigShl(a.m, a.e - e), b.sg, BigShl(b.m, b.e - e), e))

\* a - b
DSub(a, b) == DAdd(a, DNeg(b))

\* a * b
DMul(a, b) ==
    CASE a.k = "NaN" \/ b.k = "NaN" -> DNaN
      [] a.k = "Infinity" \/ b.k = "Infinity" ->
            IF a = DZero \/ b = DZero THEN DNaN ELSE DInf(a.sg * b.sg)
      [] OTHER -> DRound(a.sg * b.sg, BigMul(a.m, b.m), a.e + b.e, FALSE)

\* the quotient of the finite nonzero a and b: a.m * 2^shift divided by b.m has
\* 55 or 56 bits
DDivFinite(a, b, shift) ==
    With(BigShl(a.m, shift), LAMBDA n :
    With(BigDiv(n, b.m), LAMBDA q :
        DRound(a.sg * b.sg, q, a.e - b.e - shift, BigMul(q, b.m) # n)))

\* a / b
DDiv(a, b) ==
    CASE a.k = "NaN" \/ b.k = "NaN" -> DNaN
      [] a.k = "Infinity" /\ b.k = "Infinity" -> DNaN
      [] a.k = "Infinity" -> DInf(a.sg * b.sg)
      [] b.k = "Infinity" -> DZero
      [] b = DZero -> IF a = DZero THEN DNaN ELSE DInf(a.sg)
      [] a = DZero -> DZero
      [] OTHER -> DDivFinite(a, b, 55 + BigBitLen(b.m) - BigBitLen(a.m))

\* the square root of the finite positive a: a.m * 2^shift has 110 or 111 bits
\* and a.e - shift is even
DSqrtFinite(a, shift) ==
    With(BigShl(a.m, shift), LAMBDA n :
    With(BigSqrt(n), LAMBDA r :
        DRound(1, r, (a.e - shift) \div 2, BigMul(r, r) # n)))

\* Math.sqrt(a)
DSqrt(a) ==
    CASE a.k = "NaN" -> DNaN
      [] a = DZero -> DZero
      [] a.sg < 0 -> DNaN
      [] a.k = "Infinity" -> a
      [] OTHER ->
            With(110 - BigBitLen(a.m), LAMBDA shift :
                DSqrtFinite(a, shift + ((a.e - shift) % 2)))

\* a < b on finite doubles
DLess(a, b) ==
    With(DSub(a, b), LAMBDA d : d.k = "finite" /\ d.sg < 0 /\ d # DZero)

\* |a|
DAbs(a) == IF a.k = "NaN" THEN a ELSE [a EXCEPT !.sg = 1]

\* the double of a number of the exact arithmetic above: the nearest one
ToDouble(value) ==
    With(value, LAMBDA v :
        CASE v.t = "number" -> DDiv(DFromInt(v.n), DFromInt(v.d))
          [] v.t = "Infinity" -> DInf(v.n)
          [] OTHER -> DNaN)

(***************************************************************************)
(* Dates                                                                   *)
(***************************************************************************)
InvalidDate == [valid |-> FALSE, day |-> 0]

DateOf(dayNumber) == [valid |-> TRUE, day |-> dayNumber]

\* the civil date (year, month 1..12, day of month) of a day number
CivilFromDays(z0) ==
    With(z0 + 719468, LAMBDA z :
    With(z \div 146097, LAMBDA era :
    With(z - era * 146097, LAMBDA doe :
    With((doe - doe \div 1460 + doe \div 36524 - doe \div 146096) \div 365, LAMBDA yoe :
    With(doe - (365 * yoe + yoe \div 4 - yoe \div 100), LAMBDA doy :
    With((5 * doy + 2) \div 153, LAMBDA mp :
    With(IF mp < 10 THEN mp + 3 ELSE mp - 9, LAMBDA mm :
        [y |-> yoe + era * 400 + (IF mm <= 2 THEN 1 ELSE 0),
         m |-> mm,
         d |-> doy - (153 * mp + 2) \div 5 + 1])))))))

\* the day number of a civil date
DaysFromCivil(y0, m, d) ==
    With(IF m <= 2 THEN y0 - 1 ELSE y0, LAMBDA y :
    With(y - (y \div 400) * 400, LAMBDA yoe :
    With((153 * (IF m > 2 THEN m - 3 ELSE m + 9) + 2) \div 5 + d - 1, LAMBDA doy :
        (y \div 400) * 146097 + yoe * 365 + yoe \div 4 - yoe \div 100 + doy - 719468)))

\* a timestamp field: absent, the empty string, or a text; `day` is the local day
\* the text denotes (`parses` false: the Date constructor cannot parse it) and
\* `iso` tells whether date-fns parseISO accepts it
TsAbsent == [k |-> "undefined", parses |-> FALSE, iso |-> FALSE, day |-> 0]

TsGarbage == [k |-> "text", parses |-> FALSE, iso |-> FALSE, day |-> 0]

TsDay(y, m, d) ==
    [k |-> "text", parses |-> TRUE, iso |-> TRUE, day |-> DaysFromCivil(y, m, d)]

\* !!item.timestamp
TsTruthy(ts) == ts.k = "text"

\* new Date(item.timestamp)
NewDate(ts) == IF ts.parses THEN DateOf(ts.day) ELSE InvalidDate

\* parseISO(item.timestamp)
parseISO(ts) == IF ts.parses /\ ts.iso THEN DateOf(ts.day) ELSE InvalidDate

\* new Date(year, monthIndex, day): day overflow carries into the next months
NewDateYMD(y, monthIndex, d) == DateOf(DaysFromCivil(y, monthIndex + 1, 1) + d - 1)

getFullYear(date) == IF date.valid THEN Num(CivilFromDays(date.day).y) ELSE NAN

\* getMonth(): 0..11
getMonth(date) == IF date.valid THEN Num(CivilFromDays(date.day).m - 1) ELSE NAN

\* date-fns isSameDay(a, b): false when either date is invalid
isSameDay(a, b) == a.valid /\ b.valid /\ a.day = b.day

\* date-fns addDays(date, i)
addDays(date, i) == IF date.valid THEN DateOf(date.day + i) ELSE date

\* s.padStart(width, fill) with a one-character fill
RECURSIVE padStart(_, _, _)
padStart(s, width, fill) ==
    IF Len(s) >= width THEN s ELSE padStart(<<fill>> \o s, width, fill)

\* `${date.getFullYear()}-${String(date.getMonth() + 1).padStart(2, '0')}`
MonthKey(date) ==
    ToString(getFullYear(date)) \o <<"-">>
        \o padStart(ToString(Plus(getMonth(date), Num(1))), 2, "0")

\* the rank of a character in the collation localeCompare uses: punctuation
\* before digits before letters
CollationRank(c) ==
    CASE c = "-" -> 0
      [] IsDigit(c) -> 1 + DigitVal(c)
      [] c = "a" -> 11
      [] OTHER -> 12

\* a.localeCompare(b) on month keys: -1, 0 or 1
RECURSIVE localeCompare(_, _)
localeCompare(a, b) ==
    CASE a = <<>> /\ b = <<>> -> 0
      [] a = <<>> -> -1
      [] b = <<>> -> 1
      [] CollationRank(Head(a)) < CollationRank(Head(b)) -> -1
      [] CollationRank(Head(a)) > CollationRank(Head(b)) -> 1
      [] OTHER -> localeCompare(Tail(a), Tail(b))

\* x placed into sorted, after every element that does not compare greater
RECURSIVE InsertByMonth(_, _)
InsertByMonth(sorted, x) ==
    IF sorted = <<>> THEN <<x>>
    ELSE IF localeCompare(Head(sorted).month, x.month) > 0
         THEN <<x>> \o sorted
         ELSE <<Head(sorted)>> \o InsertByMonth(Tail(sorted), x)

\* the series left in Map insertion order
SortByMonthOmitted(arr) == arr

\* arr.sort((a, b) => a.month.localeCompare(b.month)): a stable sort
RECURSIVE SortByMonth(_)
SortByMonth(arr) ==
    IF arr = <<>> THEN <<>>
    ELSE InsertByMonth(SortByMonth(SubSeq(arr, 1, Len(arr) - 1)), arr[Len(arr)])

\* values.reduce((sum, val) => sum + val, 0)
RECURSIVE SumValues(_)
SumValues(values) ==
    IF values = <<>> THEN Num(0)
    ELSE Plus(SumValues(SubSeq(values, 1, Len(values) - 1)), values[Len(values)])

\* the quotient without its `|| 0`
AverageUnguarded(values) == Div(SumValues(values), Num(Len(values)))

\* values.reduce((sum, val) => sum + val, 0) / values.length || 0
AverageOrZero(values) == Or(Div(SumValues(values), Num(Len(values))), Num(0))

\* the index of the entry of a Map (a sequence in insertion order) with this key,
\* 0 when there is none
MapIndex(map, key) ==
    IF \E i \in 1..Len(map) : map[i].month = key
    THEN CHOOSE i \in 1..Len(map) : map[i].month = key
    ELSE 0

\* if (v !== undefined) values.push(parseFloat(v) || 0)
PushIfDefined(values, v) ==
    IF v # UNDEF THEN Append(values, Or(parseFloat(v), Num(0))) ELSE values

(***************************************************************************)
(* ResourcePredictionChart, monthly aggregation                            *)
(* (src/components/dashboard/DatabaseMetricsGrid.tsx, second component)    *)
(***************************************************************************)
\* monthlyData.set(monthKey, {month, date, cpu_usage: [], ...})
NewMonthEntry(monthKey, date) ==
    [month |-> monthKey, date |-> date,
     cpu_usage |-> <<>>, memory_usage |-> <<>>, network_traffic |-> <<>>,
     power_consumption |-> <<>>,
     cpu_growth |-> <<>>, memory_growth |-> <<>>, network_growth |-> <<>>]

\* the pushes of one item into its month entry
MonthPush(e, item) ==
    [e EXCEPT
        !.cpu_usage = PushIfDefined(@, item.cpu_usage),
        !.memory_usage = PushIfDefined(@, item.memory_usage),
        !.network_traffic = PushIfDefined(@, item.network_traffic),
        !.power_consumption = PushIfDefined(@, item.power_consumption),
        !.cpu_growth = PushIfDefined(@, item.cpu_usage_growth_pct),
        !.memory_growth = PushIfDefined(@, item.memory_usage_growth_pct),
        !.network_growth = PushIfDefined(@, item.network_traffic_growth_pct)]

\* if (!monthlyData.has(monthKey)) monthlyData.set(monthKey, entry)
SetIfAbsent(map, entry) ==
    IF MapIndex(map, entry.month) = 0 THEN Append(map, entry) ELSE map

\* monthlyData.get(monthKey), with the item pushed into it
PushIntoMonth(map, monthKey, item) ==
    With(MapIndex(map, monthKey), LAMBDA i : [map EXCEPT ![i] = MonthPush(@, item)])

\* the body of data.forEach(item => ...) on the Map monthlyData
MonthlyForEachStep(monthlyData, item) ==
    IF ~TsTruthy(item.timestamp) THEN monthlyData
    ELSE With(NewDate(item.timestamp), LAMBDA date :
         With(MonthKey(date), LAMBDA monthKey :
            PushIntoMonth(SetIfAbsent(monthlyData, NewMonthEntry(monthKey, date)),
                          monthKey, item)))

RECURSIVE MonthlyGroup(_)
MonthlyGroup(data) ==
    IF data = <<>> THEN <<>>
    ELSE MonthlyForEachStep(MonthlyGroup(SubSeq(data, 1, Len(data) - 1)), data[Len(data)])

\* the object built for one month
MonthlyAverages(monthData) ==
    [month |-> monthData.month,
     cpu_avg |-> AverageOrZero(monthData.cpu_usage),
     memory_avg |-> AverageOrZero(monthData.memory_usage),
     network_avg |-> AverageOrZero(monthData.network_traffic),
     power_avg |-> AverageOrZero(monthData.power_consumption),
     cpu_growth |-> AverageOrZero(monthData.cpu_growth),
     memory_growth |-> AverageOrZero(monthData.memory_growth),
     network_growth |-> AverageOrZero(monthData.network_growth)]

\* ResourcePredictionChart.processedData, monthly
MonthlyProcessedData(data) ==
    IF Len(data) = 0 THEN <<>>
    ELSE With(MonthlyGroup(data), LAMBDA grouped :
            SortByMonth([i \in 1..Len(grouped) |-> MonthlyAverages(grouped[i])]))

(***************************************************************************)
(* ExternalEventsChart                                                     *)
(* (src/components/dashboard/DatabaseCapacityChart.tsx, second component)  *)
(***************************************************************************)
UpperCase == <<"A", "B", "C", "D", "E", "F", "G", "H", "I", "J", "K", "L", "M",
               "N", "O", "P", "Q", "R", "S", "T", "U", "V", "W", "X", "Y", "Z">>

LowerCase == <<"a", "b", "c", "d", "e", "f", "g", "h", "i", "j", "k", "l", "m",
               "n", "o", "p", "q", "r", "s", "t", "u", "v", "w", "x", "y", "z">>

LowerChar(c) ==
    IF \E i \in 1..26 : UpperCase[i] = c
    THEN LowerCase[CHOOSE i \in 1..26 : UpperCase[i] = c]
    ELSE c

\* s.toLowerCase()
toLowerCase(s) == [i \in 1..Len(s) |-> LowerChar(s[i])]

\* s.includes(needle)
includes(s, needle) ==
    \E i \in 1..(Len(s) - Len(needle) + 1) : SubSeq(s, i, i + Len(needle) - 1) = needle

\* e.type?.toLowerCase().includes(needle), undefined (falsy) when e.type is undefined
TypeIncludes(type, needle) ==
    type.t = "string" /\ includes(toLowerCase(type.s), needle)

\* e.severity === 'high' || e.type?...includes('earthquake') || ...includes('covid')
IsHighSeverity(e) ==
    \/ e.severity = Str(<<"h", "i", "g", "h">>)
    \/ TypeIncludes(e.type, <<"e", "a", "r", "t", "h", "q", "u", "a", "k", "e">>)
    \/ TypeIncludes(e.type, <<"c", "o", "v", "i", "d">>)

\* arr.filter(pred).length for the predicate above
RECURSIVE CountHighSeverity(_)
CountHighSeverity(events) ==
    IF events = <<>> THEN 0
    ELSE CountHighSeverity(Tail(events)) + (IF IsHighSeverity(Head(events)) THEN 1 ELSE 0)

\* monthlyPredictions.set(monthKey, {month, cpu_values: [], ..., events: []})
NewCorrelationEntry(monthKey) ==
    [month |-> monthKey, cpu_values |-> <<>>, memory_values |-> <<>>,
     network_values |-> <<>>, power_values |-> <<>>, events |-> <<>>]

\* monthlyPredictions.get(monthKey), with the item pushed into it
PushIntoCorrelationMonth(map, monthKey, item) ==
    With(MapIndex(map, monthKey), LAMBDA i :
        [map EXCEPT
            ![i].cpu_values = PushIfDefined(@, item.cpu_usage),
            ![i].memory_values = PushIfDefined(@, item.memory_usage),
            ![i].network_values = PushIfDefined(@, item.network_traffic),
            ![i].power_values = PushIfDefined(@, item.power_consumption)])

\* the body of predictionsData.forEach(item => ...)
CorrelationForEachStep(monthlyPredictions, item) ==
    IF ~TsTruthy(item.timestamp) THEN monthlyPredictions
    ELSE With(MonthKey(NewDate(item.timestamp)), LAMBDA monthKey :
            PushIntoCorrelationMonth(
                SetIfAbsent(monthlyPredictions, NewCorrelationEntry(monthKey)),
                monthKey, item))

RECURSIVE CorrelationGroup(_)
CorrelationGroup(data) ==
    IF data = <<>> THEN <<>>
    ELSE CorrelationForEachStep(CorrelationGroup(SubSeq(data, 1, Len(data) - 1)),
                                data[Len(data)])

\* a loop body that files every event under the first month
EventIntoFirstMonth(monthlyPredictions, event) ==
    IF monthlyPredictions = <<>> THEN monthlyPredictions
    ELSE [monthlyPredictions EXCEPT ![1].events = Append(@, event)]

\* the body of eventsData.forEach(event => ...)
EventForEachStep(monthlyPredictions, event) ==
    IF ~TsTruthy(event.timestamp) THEN monthlyPredictions
    ELSE With(MapIndex(monthlyPredictions, MonthKey(NewDate(event.timestamp))), LAMBDA i :
            IF i = 0 THEN monthlyPredictions
            ELSE [monthlyPredictions EXCEPT ![i].events = Append(@, event)])

RECURSIVE AttachEvents(_, _)
AttachEvents(monthlyPredictions, events) ==
    IF events = <<>> THEN monthlyPredictions
    ELSE EventForEachStep(
             AttachEvents(monthlyPredictions, SubSeq(events, 1, Len(events) - 1)),
             events[Len(events)])

\* the object built for one month
CorrelatedMonth(monthData) ==
    With2(Len(monthData.events), CountHighSeverity(monthData.events),
          LAMBDA eventCount, highSeverityEvents :
        [month |-> monthData.month,
         cpu_avg |-> AverageOrZero(monthData.cpu_values),
         memory_avg |-> AverageOrZero(monthData.memory_values),
         network_avg |-> AverageOrZero(monthData.network_values),
         power_avg |-> AverageOrZero(monthData.power_values),
         event_count |-> Num(eventCount),
         high_severity_events |-> Num(highSeverityEvents),
         event_impact |-> Num(eventCount * 5 + highSeverityEvents * 15),
         events |-> monthData.events])

\* ExternalEventsChart.correlatedData
CorrelatedData(predictions, events) ==
    IF Len(predictions) = 0 \/ Len(events) = 0 THEN <<>>
    ELSE With(AttachEvents(CorrelationGroup(predictions), events), LAMBDA grouped :
            SortByMonth([i \in 1..Len(grouped) |-> CorrelatedMonth(grouped[i])]))

\* getMetricData(metric)
getMetricData(metric) ==
    CASE metric = "cpu" -> "cpu_avg"
      [] metric = "memory" -> "memory_avg"
      [] metric = "network" -> "network_avg"
      [] metric = "power" -> "power_avg"
      [] OTHER -> "cpu_avg"

\* arr.filter(e => e.type === filter)
RECURSIVE FilterByType(_, _)
FilterByType(events, filter) ==
    IF events = <<>> THEN <<>>
    ELSE (IF Head(events).type = filter THEN <<Head(events)>> ELSE <<>>)
             \o FilterByType(Tail(events), filter)

AllFilter == Str(<<"a", "l", "l">>)

\* a filter that keeps only the months with an event of the type
FilteredDataWithoutEmptyMonths(correlated, filter) ==
    IF filter = AllFilter THEN correlated
    ELSE SelectSeq([i \in 1..Len(correlated) |->
                      With(FilterByType(correlated[i].events, filter), LAMBDA kept :
                          [correlated[i] EXCEPT !.events = kept,
                                                !.event_count = Num(Len(kept))])],
                   LAMBDA item : item.events # <<>>)

\* ExternalEventsChart.filteredData
FilteredData(correlated, filter) ==
    IF filter = AllFilter THEN correlated
    ELSE [i \in 1..Len(correlated) |->
            With(FilterByType(correlated[i].events, filter), LAMBDA kept :
                [correlated[i] EXCEPT !.events = kept, !.event_count = Num(Len(kept))])]

\* filteredData.filter(item => item[getMetricData(selectedMetric)] && item.event_count)
RECURSIVE ValidData(_, _)
ValidData(filtered, metric) ==
    IF filtered = <<>> THEN <<>>
    ELSE (IF Truthy(Head(filtered)[getMetricData(metric)])
             /\ Truthy(Head(filtered).event_count)
          THEN <<Head(filtered)>> ELSE <<>>)
             \o ValidData(Tail(filtered), metric)

\* validData.map(item => item[key]), each number as the double it is
FieldValues(validData, key) == [i \in 1..Len(validData) |-> ToDouble(validData[i][key])]

\* values.reduce((sum, val) => sum + val, 0)
RECURSIVE DSum(_)
DSum(values) ==
    IF values = <<>> THEN DZero
    ELSE DAdd(DSum(SubSeq(values, 1, Len(values) - 1)), values[Len(values)])

\* values.reduce((sum, val) => sum + val, 0) / values.length
Mean(values) == DDiv(DSum(values), DFromInt(Len(values)))

\* the sums after the first n rounds of the for loop over validData:
\* [numerator, denomMetric, denomEvents]
RECURSIVE CorrelationSums(_, _, _, _, _)
CorrelationSums(metricValues, eventValues, meanMetric, meanEvents, n) ==
    IF n = 0
    THEN [numerator |-> DZero, denomMetric |-> DZero, denomEvents |-> DZero]
    ELSE With(CorrelationSums(metricValues, eventValues, meanMetric, meanEvents, n - 1),
              LAMBDA acc :
         With2(DSub(metricValues[n], meanMetric), DSub(eventValues[n], meanEvents),
               LAMBDA metricDiff, eventDiff :
            [numerator |-> DAdd(acc.numerator, DMul(metricDiff, eventDiff)),
             denomMetric |-> DAdd(acc.denomMetric, DMul(metricDiff, metricDiff)),
             denomEvents |-> DAdd(acc.denomEvents, DMul(eventDiff, eventDiff))]))

\* isNaN(correlation) ? 0 : correlation
NaNToZero(correlation) == IF correlation.k = "NaN" THEN DZero ELSE correlation

\* the square root dropped: the numerator over the product of the two sums
QuotientWithoutRoot(sums) ==
    NaNToZero(DDiv(sums.numerator, DMul(sums.denomMetric, sums.denomEvents)))

\* numerator / Math.sqrt(denomMetric * denomEvents), 0 when that is NaN
Quotient(sums) ==
    NaNToZero(DDiv(sums.numerator, DSqrt(DMul(sums.denomMetric, sums.denomEvents))))

\* the coefficient of the paired values
Pearson(metricValues, eventValues) ==
    With2(Mean(metricValues), Mean(eventValues), LAMBDA meanMetric, meanEvents :
        Quotient(CorrelationSums(metricValues, eventValues, meanMetric, meanEvents,
                                 Len(metricValues))))

\* ExternalEventsChart.calculateCorrelation
calculateCorrelation(filtered, metric) ==
    With(ValidData(filtered, metric), LAMBDA validData :
        IF Len(validData) < 2 THEN DZero
        ELSE With2(FieldValues(validData, getMetricData(metric)),
                   FieldValues(validData, "event_count"),
                   LAMBDA metricValues, eventValues : Pearson(metricValues, eventValues)))

\* a > b, for a finite b
DGreater(a, b) ==
    CASE a.k = "NaN" -> FALSE
      [] a.k = "Infinity" -> a.sg > 0
      [] OTHER -> DLess(b, a)

\* the literals 0.5 and 0.3 of the badge, as the doubles they denote
StrongAbove == Dbl(1, <<1>>, -1)

ModerateAbove == ToDouble(Rat(3, 10))

\* the sign kept: the thresholds applied to the coefficient itself
StrengthOfSigned(correlation) ==
    IF DGreater(correlation, StrongAbove) THEN "Strong"
    ELSE IF DGreater(correlation, ModerateAbove) THEN "Moderate"
    ELSE "Weak"

\* Math.abs(correlation) > 0.5 ? "Strong" : Math.abs(correlation) > 0.3 ? "Moderate" : "Weak"
CorrelationStrength(correlation) ==
    With(DAbs(correlation), LAMBDA magnitude :
        IF DGreater(magnitude, StrongAbove) THEN "Strong"
        ELSE IF DGreater(magnitude, ModerateAbove) THEN "Moderate"
        ELSE "Weak")

(***************************************************************************)
(* ResourcePredictionChart, daily series                                   *)
(* (src/components/dashboard/ResourcePredictionChart.tsx)                  *)
(***************************************************************************)
\* prev > 0 ? ((current - prev) / prev) * 100 : 0
GrowthPercent(current, prev) ==
    IF Gt(prev, Num(0)) THEN Times(Div(Minus(current, prev), prev), Num(100))
    ELSE Num(0)

\* the first item counted as full growth
GrowthOfFirstItem(data, index, field) ==
    IF index > 1
    THEN With2(Or(data[index][field], Num(0)), Or(data[index - 1][field], Num(0)),
               LAMBDA current, prev : GrowthPercent(current, prev))
    ELSE Num(100)

\* the growth of data[index] against data[index - 1]; 0 for the first item
DailyGrowth(data, index, field) ==
    IF index > 1
    THEN With2(Or(data[index][field], Num(0)), Or(data[index - 1][field], Num(0)),
               LAMBDA current, prev : GrowthPercent(current, prev))
    ELSE Num(0)

\* timestamp.toLocaleDateString('en-US', {month: 'short', day: 'numeric'}):
\* the month index and the day of the month, <<>> for "Invalid Date"
DateLabel(date) ==
    IF date.valid
    THEN With(CivilFromDays(date.day), LAMBDA civil : <<civil.m - 1, civil.d>>)
    ELSE <<>>

\* item.timestamp ? new Date(item.timestamp) : new Date(2025, 0, index + 1),
\* index counted from 1 here
DailyTimestamp(item, index) ==
    IF TsTruthy(item.timestamp) THEN NewDate(item.timestamp)
    ELSE NewDateYMD(2025, 0, index)

\* whether the callback of data.map raises a TypeError on this item: one of the
\* four (item.x || 0).toFixed(2) calls has a string receiver
DailyItemThrows(item) ==
    \E field \in {"cpu_usage", "memory_usage", "network_traffic", "power_consumption"} :
        ~HasToFixed(Or(item[field], Num(0)))

\* parseFloat(x.toFixed(2))
Fixed2(x) == parseFloat(toFixed(x, 2))

\* the object the callback of data.map returns for data[index]
DailyPoint(data, index) ==
    With2(data[index], DailyTimestamp(data[index], index), LAMBDA item, timestamp :
        [date |-> DateLabel(timestamp),
         fullDate |-> timestamp,
         cpu_avg |-> Fixed2(Or(item.cpu_usage, Num(0))),
         memory_avg |-> Fixed2(Or(item.memory_usage, Num(0))),
         network_avg |-> Fixed2(Or(item.network_traffic, Num(0))),
         power_avg |-> Fixed2(Or(item.power_consumption, Num(0))),
         cpu_growth |-> Fixed2(DailyGrowth(data, index, "cpu_usage")),
         memory_growth |-> Fixed2(DailyGrowth(data, index, "memory_usage")),
         network_growth |-> Fixed2(DailyGrowth(data, index, "network_traffic"))])

\* ResourcePredictionChart.processedData, daily: [threw, value]
DailyProcessedData(data) ==
    IF Len(data) = 0 THEN [threw |-> FALSE, value |-> <<>>]
    ELSE IF \E i \in 1..Len(data) : DailyItemThrows(data[i])
         THEN [threw |-> TRUE, value |-> <<>>]
         ELSE [threw |-> FALSE, value |-> [i \in 1..Len(data) |-> DailyPoint(data, i)]]

(***************************************************************************)
(* InteractiveCalendar (src/components/dashboard/InteractiveCalendar.tsx)  *)
(***************************************************************************)
CalendarDays == 365

\* data.filter(item => item.timestamp ? isSameDay(new Date(item.timestamp), date) : false)
RECURSIVE DayData(_, _)
DayData(data, date) ==
    IF data = <<>> THEN <<>>
    ELSE (IF TsTruthy(Head(data).timestamp)
             /\ isSameDay(NewDate(Head(data).timestamp), date)
          THEN <<Head(data)>> ELSE <<>>)
             \o DayData(Tail(data), date)

\* dayData.reduce((sum, item) => sum + (parseFloat(item[field]) || 0), 0)
RECURSIVE SumParsed(_, _)
SumParsed(dayData, field) ==
    IF dayData = <<>> THEN Num(0)
    ELSE Plus(SumParsed(SubSeq(dayData, 1, Len(dayData) - 1), field),
              Or(parseFloat(dayData[Len(dayData)][field]), Num(0)))

\* dayData.reduce(...) / dayData.length
ParsedAverage(dayData, field) == Div(SumParsed(dayData, field), Num(Len(dayData)))

\* the entry pushed for a day that has data
CalendarEntry(date, dayData) ==
    [date |-> date,
     cpu_avg |-> ParsedAverage(dayData, "cpu_usage"),
     memory_avg |-> ParsedAverage(dayData, "memory_usage"),
     network_avg |-> ParsedAverage(dayData, "network_traffic"),
     power_avg |-> ParsedAverage(dayData, "power_consumption"),
     events |-> <<>>]

\* the loop indexes i in 0 .. CalendarDays - 1 whose day has data
DaysWithData(data, start) ==
    {i \in 0..(CalendarDays - 1) : Len(DayData(data, addDays(start, i))) > 0}

\* the entries the loop for (i = 0; i < 365; i++) pushes, in the order of i: the
\* entries of the indexes in `left`, smallest first
RECURSIVE CalendarLoop(_, _, _)
CalendarLoop(data, start, left) ==
    IF left = {} THEN <<>>
    ELSE With(CHOOSE k \in left : \A l \in left : k <= l, LAMBDA i :
            <<CalendarEntry(addDays(start, i), DayData(data, addDays(start, i)))>>
                \o CalendarLoop(data, start, left \ {i}))

\* InteractiveCalendar.processedCalendarData, `now` being what new Date() returns
ProcessedCalendarData(data, now) == CalendarLoop(data, now, DaysWithData(data, now))

\* a lookup that falls back on the first day with data
getDateDataOrFirst(calendarData, date) ==
    IF calendarData = <<>> THEN [found |-> FALSE, item |-> <<>>]
    ELSE IF \E i \in 1..Len(calendarData) : isSameDay(calendarData[i].date, date)
    THEN [found |-> TRUE,
          item |-> calendarData[CHOOSE i \in 1..Len(calendarData) :
                                   isSameDay(calendarData[i].date, date)]]
    ELSE [found |-> TRUE, item |-> calendarData[1]]

\* processedCalendarData.find(item => isSameDay(item.date, date)): [found, item]
getDateData(calendarData, date) ==
    IF \E i \in 1..Len(calendarData) : isSameDay(calendarData[i].date, date)
    THEN [found |-> TRUE,
          item |-> calendarData[CHOOSE i \in 1..Len(calendarData) :
                                   /\ isSameDay(calendarData[i].date, date)
                                   /\ \A j \in 1..(i - 1) :
                                         ~isSameDay(calendarData[j].date, date)]]
    ELSE [found |-> FALSE, item |-> <<>>]

\* avgUsage > 80 ? 3 : avgUsage > 60 ? 2 : avgUsage > 40 ? 1 : 0
IntensityOf(avgUsage) ==
    IF Gt(avgUsage, Num(80)) THEN 3
    ELSE IF Gt(avgUsage, Num(60)) THEN 2
    ELSE IF Gt(avgUsage, Num(40)) THEN 1
    ELSE 0

\* InteractiveCalendar.getDateIntensity
getDateIntensity(calendarData, date) ==
    With(getDateData(calendarData, date), LAMBDA dayData :
        IF ~dayData.found THEN 0
        ELSE IntensityOf(Div(Plus(dayData.item.cpu_avg, dayData.item.memory_avg), Num(2))))

(***************************************************************************)
(* DatabaseMetricsGrid (src/components/dashboard/DatabaseMetricsGrid.tsx)  *)
(***************************************************************************)
\* the callback sum + (item[field] || 0) applied to data[lo], ..., data[hi] in
\* this order, from `sum`: the first half of the items, then the second half
\* from what the first gave
RECURSIVE SumFieldRange(_, _, _, _, _)
SumFieldRange(sum, data, field, lo, hi) ==
    IF lo > hi THEN sum
    ELSE IF lo = hi THEN Plus(sum, Or(data[lo][field], Num(0)))
    ELSE With(SumFieldRange(sum, data, field, lo, (lo + hi) \div 2), LAMBDA half :
            SumFieldRange(half, data, field, (lo + hi) \div 2 + 1, hi))

\* data.reduce((sum, item) => sum + (item[field] || 0), 0)
SumField(data, field) == SumFieldRange(Num(0), data, field, 1, Len(data))

\* data.reduce((sum, item) => sum + (item[field] || 0), 0) / data.length
FieldAverage(data, field) == Div(SumField(data, field), Num(Len(data)))

\* data.slice(from, to) for negative from and to (counted from the end); to = 0
\* stands for an omitted end
SliceFromEnd(data, from, to) ==
    SubSeq(data,
           (IF Len(data) + from < 0 THEN 0 ELSE Len(data) + from) + 1,
           IF to = 0 THEN Len(data) ELSE IF Len(data) + to < 0 THEN 0 ELSE Len(data) + to)

TrendWindow == 30

\* (item.cpu_usage || 0) > 80 || (item.memory_usage || 0) > 85
\*     || (item.network_traffic || 0) > 90
IsHighLoadDay(item) ==
    \/ Gt(Or(item.cpu_usage, Num(0)), Num(80))
    \/ Gt(Or(item.memory_usage, Num(0)), Num(85))
    \/ Gt(Or(item.network_traffic, Num(0)), Num(90))

\* data.filter(item => ...).length
CountHighLoadDays(data) == Cardinality({i \in 1..Len(data) : IsHighLoadDay(data[i])})

\* (((recentAvg - previousAvg) / previousAvg) * 100).toFixed(1)
TrendPercent(recentAvg, previousAvg) ==
    toFixed(Times(Div(Minus(recentAvg, previousAvg), previousAvg), Num(100)), 1)

\* DatabaseMetricsGrid.calculateMetrics: [isNull, ...the returned object]
calculateMetrics(data) ==
    IF Len(data) = 0
    THEN [isNull |-> TRUE, totalInputs |-> 0, dailyAverage |-> Num(0),
          cpuAvg |-> Num(0), memoryAvg |-> Num(0), networkAvg |-> Num(0),
          trendPercent |-> Str(<<>>), highLoadDays |-> 0]
    ELSE [isNull |-> FALSE,
          totalInputs |-> Len(data),
          dailyAverage |-> MathRound(Div(Num(Len(data)), Num(365))),
          cpuAvg |-> FieldAverage(data, "cpu_usage"),
          memoryAvg |-> FieldAverage(data, "memory_usage"),
          networkAvg |-> FieldAverage(data, "network_traffic"),
          trendPercent |->
              With2(FieldAverage(SliceFromEnd(data, -TrendWindow, 0), "cpu_usage"),
                    FieldAverage(SliceFromEnd(data, -2 * TrendWindow, -TrendWindow),
                                 "cpu_usage"),
                    LAMBDA recentAvg, previousAvg : TrendPercent(recentAvg, previousAvg)),
          highLoadDays |-> CountHighLoadDays(data)]

(***************************************************************************)
(* MaintenancePredictions (src/unnamed/part_000, first component)          *)
(***************************************************************************)
\* (item.cpu_usage || 0) > 80 || (item.memory_usage || 0) > 85
IsHighUsageDay(item) ==
    \/ Gt(Or(item.cpu_usage, Num(0)), Num(80))
    \/ Gt(Or(item.memory_usage, Num(0)), Num(85))

\* a count of high-usage days with the cpu cutoff of the index task (75)
CountDaysFromIndexCutoff(data) ==
    Cardinality({i \in 1..Len(data) :
                    IsHighUsageDay(data[i]) \/ Gt(Or(data[i].cpu_usage, Num(0)), Num(75))})

\* data.filter(item => ...).length
CountHighUsageDays(data) == Cardinality({i \in 1..Len(data) : IsHighUsageDay(data[i])})

HighUsageDaysLimit == 50

\* the vacuum task required from the limit on: highUsageDays >= 50
TaskListFromLimit(totalInputs, avgCpuUsage, highUsageDays) ==
    <<[id |-> "vacuum",
       status |-> IF highUsageDays >= HighUsageDaysLimit THEN "Required" ELSE "Scheduled",
       severity |-> IF highUsageDays >= HighUsageDaysLimit THEN "high" ELSE "medium",
       totalInputs |-> totalInputs,
       estimatedTime |-> MathRound(Times(Div(Num(totalInputs), Num(100000)), Num(24))),
       frequency |-> MathCeil(Div(Num(totalInputs), Num(50000)))],
      [id |-> "index",
       status |-> IF Gt(avgCpuUsage, Num(75)) THEN "Recommended" ELSE "Optimal",
       severity |-> IF Gt(avgCpuUsage, Num(75)) THEN "medium" ELSE "low",
       totalInputs |-> totalInputs,
       estimatedTime |-> Num(0),
       frequency |-> Num(0)],
      [id |-> "statistics",
       status |-> "Scheduled",
       severity |-> "medium",
       totalInputs |-> totalInputs,
       estimatedTime |-> Num(0),
       frequency |-> Num(0)]>>

\* the three tasks, with the fields derived from the data
MaintenanceTaskList(totalInputs, avgCpuUsage, highUsageDays) ==
    <<[id |-> "vacuum",
       status |-> IF highUsageDays > HighUsageDaysLimit THEN "Required" ELSE "Scheduled",
       severity |-> IF highUsageDays > HighUsageDaysLimit THEN "high" ELSE "medium",
       totalInputs |-> totalInputs,
       estimatedTime |-> MathRound(Times(Div(Num(totalInputs), Num(100000)), Num(24))),
       frequency |-> MathCeil(Div(Num(totalInputs), Num(50000)))],
      [id |-> "index",
       status |-> IF Gt(avgCpuUsage, Num(75)) THEN "Recommended" ELSE "Optimal",
       severity |-> IF Gt(avgCpuUsage, Num(75)) THEN "medium" ELSE "low",
       totalInputs |-> totalInputs,
       estimatedTime |-> Num(0),
       frequency |-> Num(0)],
      [id |-> "statistics",
       status |-> "Scheduled",
       severity |-> "medium",
       totalInputs |-> totalInputs,
       estimatedTime |-> Num(0),
       frequency |-> Num(0)]>>

\* MaintenancePredictions.maintenanceTasks: the tasks, and the three averages the
\* memo computes
maintenanceTasks(data) ==
    IF Len(data) = 0
    THEN [tasks |-> <<>>, avgCpuUsage |-> Num(0), avgMemoryUsage |-> Num(0),
          avgNetworkTraffic |-> Num(0)]
    ELSE With2(FieldAverage(data, "cpu_usage"), CountHighUsageDays(data),
               LAMBDA avgCpuUsage, highUsageDays :
            [tasks |-> MaintenanceTaskList(Len(data), avgCpuUsage, highUsageDays),
             avgCpuUsage |-> avgCpuUsage,
             avgMemoryUsage |-> FieldAverage(data, "memory_usage"),
             avgNetworkTraffic |-> FieldAverage(data, "network_traffic")])

(***************************************************************************)
(* DatabaseCapacityChart                                                   *)
(* (src/components/dashboard/DatabaseCapacityChart.tsx, first component)   *)
(***************************************************************************)
\* item.timestamp ? parseISO(item.timestamp) : new Date(2025, 0, index + 1),
\* index counted from 1 here
CapacityTimestamp(item, index) ==
    IF TsTruthy(item.timestamp) THEN parseISO(item.timestamp)
    ELSE NewDateYMD(2025, 0, index)

\* Math.round((item.cpu_usage || 50) * 10 + (item.memory_usage || 50) * 5)
BaseInputs(item) ==
    MathRound(Plus(Times(Or(item.cpu_usage, Num(50)), Num(10)),
                   Times(Or(item.memory_usage, Num(50)), Num(5))))

\* the object the callback of data.map returns for data[index], `variation` being
\* the value of Math.random() * 400 - 200 in this call
CapacityPoint(data, index, variation) ==
    With2(data[index], CapacityTimestamp(data[index], index), LAMBDA item, timestamp :
        [date |-> DateLabel(timestamp),
         fullDate |-> timestamp,
         dailyInputs |-> MathRound(MathMax0(Plus(BaseInputs(item), variation))),
         cpuUsage |-> Or(item.cpu_usage, Num(0)),
         memoryUsage |-> Or(item.memory_usage, Num(0)),
         networkTraffic |-> Or(item.network_traffic, Num(0)),
         powerConsumption |-> Or(item.power_consumption, Num(0))])

\* whether date-fns format(timestamp, 'MMM dd') raises a RangeError on this item:
\* it does on an Invalid Date
CapacityItemThrows(item) ==
    TsTruthy(item.timestamp) /\ ~parseISO(item.timestamp).valid

\* points.reduce((sum, item) => sum + item.dailyInputs, 0)
RECURSIVE SumDailyInputs(_)
SumDailyInputs(points) ==
    IF points = <<>> THEN Num(0)
    ELSE Plus(SumDailyInputs(SubSeq(points, 1, Len(points) - 1)),
              points[Len(points)].dailyInputs)

\* the average without the test of processedData.length
AverageInputsUnguarded(points) == Div(SumDailyInputs(points), Num(Len(points)))

\* DatabaseCapacityChart.averageInputs
AverageInputs(points) ==
    IF Len(points) = 0 THEN Num(0) ELSE Div(SumDailyInputs(points), Num(Len(points)))

\* DatabaseCapacityChart.processedData and averageInputs: [threw, value, averageInputs],
\* variations[i] being the random variation drawn for data[i]
CapacityProcessedData(data, variations) ==
    IF \E i \in 1..Len(data) : CapacityItemThrows(data[i])
    THEN [threw |-> TRUE, value |-> <<>>, averageInputs |-> Num(0)]
    ELSE With([i \in 1..Len(data) |-> CapacityPoint(data, i, variations[i])],
              LAMBDA points :
                [threw |-> FALSE, value |-> points, averageInputs |-> AverageInputs(points)])

(***************************************************************************)
(* Rendering: each action is one component computing its derived data from *)
(* the props it is given; `out` keeps what the component computed.         *)
(***************************************************************************)
Rendered(view, threw, value) == [view |-> view, threw |-> threw, value |-> value]

NothingRendered == Rendered("none", FALSE, <<>>)

\* ResourcePredictionChart (monthly) renders
RenderMonthly ==
    /\ out' = Rendered("monthly", FALSE, MonthlyProcessedData(predictionsData))
    /\ UNCHANGED <<predictionsData, eventsData, eventsDefined, selectedMetric, eventFilter, today,
                   showFileUpload, predictionFile, parsing, selectedDate, lastDropped>>

\* ResourcePredictionChart (daily) renders
RenderDaily ==
    /\ \E r \in {DailyProcessedData(predictionsData)} :
          out' = Rendered("daily", r.threw, r.value)
    /\ UNCHANGED <<predictionsData, eventsData, eventsDefined, selectedMetric, eventFilter, today,
                   showFileUpload, predictionFile, parsing, selectedDate, lastDropped>>

\* what ExternalEventsChart computes when it renders
EventsChartOutput(correlated, filtered, metric) ==
    With(calculateCorrelation(filtered, metric), LAMBDA correlation :
        [correlatedData |-> correlated,
         filteredData |-> filtered,
         correlation |-> correlation,
         strength |-> CorrelationStrength(correlation)])

\* ExternalEventsChart renders: correlatedData, filteredData, correlation and
\* the strength badge
RenderEventsChart ==
    /\ \E correlated \in {CorrelatedData(predictionsData, eventsData)} :
          \E filtered \in {FilteredData(correlated, eventFilter)} :
             out' = Rendered("events", FALSE,
                             EventsChartOutput(correlated, filtered, selectedMetric))
    /\ UNCHANGED <<predictionsData, eventsData, eventsDefined, selectedMetric, eventFilter, today,
                   showFileUpload, predictionFile, parsing, selectedDate, lastDropped>>

\* ExternalEventsChart.eventTypes: 'all' and the truthy types of the events
eventTypes(events) ==
    {AllFilter} \cup {events[i].type : i \in {j \in 1..Len(events) : Truthy(events[j].type)}}

\* the metrics offered by the metric selector
MetricChoices == {"cpu", "memory", "network", "power"}

\* the event filter selector: onValueChange={setEventFilter}, and the render
\* that the new state causes
SetEventFilter ==
    /\ out.view = "events"
    /\ \E filter \in eventTypes(eventsData) :
          /\ eventFilter' = filter
          /\ \E correlated \in {CorrelatedData(predictionsData, eventsData)} :
                \E filtered \in {FilteredData(correlated, filter)} :
                   out' = Rendered("events", FALSE,
                                   EventsChartOutput(correlated, filtered, selectedMetric))
    /\ UNCHANGED <<predictionsData, eventsData, eventsDefined, selectedMetric, today,
                   showFileUpload, predictionFile, parsing, selectedDate, lastDropped>>

\* the metric selector: onValueChange={(value) => setSelectedMetric(value)}, and
\* the render that the new state causes
SetSelectedMetric ==
    /\ out.view = "events"
    /\ \E metric \in MetricChoices :
          /\ selectedMetric' = metric
          /\ \E correlated \in {CorrelatedData(predictionsData, eventsData)} :
                \E filtered \in {FilteredData(correlated, eventFilter)} :
                   out' = Rendered("events", FALSE,
                                   EventsChartOutput(correlated, filtered, metric))
    /\ UNCHANGED <<predictionsData, eventsData, eventsDefined, eventFilter, today,
                   showFileUpload, predictionFile, parsing, selectedDate, lastDropped>>

\* InteractiveCalendar renders
RenderCalendar ==
    /\ out' = Rendered("calendar", FALSE,
                       ProcessedCalendarData(predictionsData, DateOf(today)))
    /\ UNCHANGED <<predictionsData, eventsData, eventsDefined, selectedMetric, eventFilter, today,
                   showFileUpload, predictionFile, parsing, selectedDate, lastDropped>>

\* the days the day picker asks the intensity of: the first, the sixteenth and
\* the last day of the calendar's range, the day before it and the day after it
DisplayedDays == {DateOf(today + i) : i \in {-1, 0, 15, CalendarDays - 1, CalendarDays}}

\* the day picker evaluates the modifiers of one displayed day:
\* getDateIntensity(date) on the calendar's processedCalendarData
RenderCalendarDay ==
    /\ \E calendarData \in {ProcessedCalendarData(predictionsData, DateOf(today))} :
          \E date \in DisplayedDays :
             out' = Rendered("intensity", FALSE,
                             [date |-> date,
                              dayData |-> getDateData(calendarData, date),
                              intensity |-> getDateIntensity(calendarData, date)])
    /\ UNCHANGED <<predictionsData, eventsData, eventsDefined, selectedMetric, eventFilter, today,
                   showFileUpload, predictionFile, parsing, selectedDate, lastDropped>>

\* DatabaseMetricsGrid renders
RenderMetricsGrid ==
    /\ out' = Rendered("metrics", FALSE, calculateMetrics(predictionsData))
    /\ UNCHANGED <<predictionsData, eventsData, eventsDefined, selectedMetric, eventFilter, today,
                   showFileUpload, predictionFile, parsing, selectedDate, lastDropped>>

\* MaintenancePredictions renders
RenderMaintenance ==
    /\ out' = Rendered("maintenance", FALSE, maintenanceTasks(predictionsData))
    /\ UNCHANGED <<predictionsData, eventsData, eventsDefined, selectedMetric, eventFilter, today,
                   showFileUpload, predictionFile, parsing, selectedDate, lastDropped>>

\* the values Math.random() * 400 - 200 is drawn from in the model
Variations == {Num(-200), Num(0), Rat(399, 2)}

\* DatabaseCapacityChart renders, drawing one random variation per record
RenderCapacityChart ==
    /\ \E variations \in [1..Len(predictionsData) -> Variations] :
          \E r \in {CapacityProcessedData(predictionsData, variations)} :
             out' = Rendered("capacity", r.threw,
                             [points |-> r.value, averageInputs |-> r.averageInputs])
    /\ UNCHANGED <<predictionsData, eventsData, eventsDefined, selectedMetric, eventFilter, today,
                   showFileUpload, predictionFile, parsing, selectedDate, lastDropped>>

(***************************************************************************)
(* FileUpload: the status of the dropped file                              *)
(***************************************************************************)
\* FileStatus; the optional fields `error` and `data` are <<>> when absent and
\* a one-element tuple when present, and the status "null" stands for the
\* initial state null
FileStatus(name, status, progress, error, data) ==
    [name |-> name, status |-> status, progress |-> progress, error |-> error, data |-> data]

NoFile == FileStatus("", "null", 0, <<>>, <<>>)

\* Index: useState<Date>() starts undefined
NoDate == [valid |-> FALSE, day |-> 0]

\* the page before the upload modal is opened
ModalClosed ==
    /\ showFileUpload = FALSE
    /\ predictionFile = NoFile
    /\ parsing = {}
    /\ lastDropped = ""

(***************************************************************************)
(* Inputs                                                                  *)
(***************************************************************************)
\* one parsed row of the predictions file
Record(ts, cpu, memory, network, power, growth) ==
    [timestamp |-> ts, cpu_usage |-> cpu, memory_usage |-> memory,
     network_traffic |-> network, power_consumption |-> power,
     cpu_usage_growth_pct |-> growth, memory_usage_growth_pct |-> growth,
     network_traffic_growth_pct |-> growth]

\* one parsed row of the events file
Event(ts, type, severity) ==
    [timestamp |-> ts, type |-> type, severity |-> severity, description |-> UNDEF]

\* all sequences over S of length at most n
SeqsUpTo(S, n) == UNION {[1..k -> S] : k \in 0..n}

MaxRecords == 2

\* the metric columns of a row: <<cpu, memory, network, power, growth columns>>
AggProfiles ==
    { <<Num(80), Num(60), Num(50), Num(100), Num(5)>>,
      <<UNDEF, UNDEF, UNDEF, UNDEF, UNDEF>>,
      <<Num(40), UNDEF, Num(95), UNDEF, UNDEF>>,
      <<Num(-50), Num(90), Num(0), Num(200), Num(0)>> }

AggTimestamps ==
    {TsAbsent, TsGarbage, TsDay(2024, 12, 31), TsDay(2025, 1, 15), TsDay(2025, 2, 1)}

AggRecords ==
    {Record(ts, p[1], p[2], p[3], p[4], p[5]) : ts \in AggTimestamps, p \in AggProfiles}

Outage == Str(<<"o", "u", "t", "a", "g", "e">>)

AggEventSets == {<<>>, <<Event(TsDay(2025, 1, 20), Outage, UNDEF)>>}

\* the day the calendar is rendered on
AggToday == DaysFromCivil(2024, 12, 31)

InitAgg ==
    /\ predictionsData \in SeqsUpTo(AggRecords, MaxRecords)
    /\ eventsData \in AggEventSets
    /\ selectedMetric = "cpu"
    /\ eventFilter = AllFilter
    /\ today = AggToday
    /\ out = NothingRendered
    /\ ModalClosed
    /\ selectedDate = NoDate
    /\ eventsDefined = TRUE

NextAgg ==
    \/ RenderMonthly
    \/ RenderDaily
    \/ RenderEventsChart
    \/ RenderCalendar
    \/ RenderMetricsGrid

\* the aggregating views over datasets of numeric and missing fields
SpecAgg == InitAgg /\ [][NextAgg]_vars

\* the values of a metric cell of an uploaded file: the column absent, a number,
\* and the strings the CSV parser delivers for a number, a text and an empty cell
CsvCells == {UNDEF, Num(80), Str(<<"8", "0">>), Str(<<"4", "0">>), Str(<<"n", "/", "a">>), Str(<<>>)}

\* rows whose cpu and memory cells vary; the other columns are absent
CsvRecords ==
    {Record(ts, cpu, memory, UNDEF, UNDEF, UNDEF) :
        ts \in {TsAbsent, TsDay(2025, 1, 15)}, cpu \in CsvCells, memory \in {UNDEF, Str(<<"9", "0">>)}}

InitCsv ==
    /\ predictionsData \in SeqsUpTo(CsvRecords, MaxRecords)
    /\ eventsData = <<>>
    /\ selectedMetric = "cpu"
    /\ eventFilter = AllFilter
    /\ today = AggToday
    /\ out = NothingRendered
    /\ ModalClosed
    /\ selectedDate = NoDate
    /\ eventsDefined = TRUE

NextCsv ==
    \/ RenderMetricsGrid
    \/ RenderDaily
    \/ RenderMaintenance
    \/ RenderCapacityChart

\* the averaging views over datasets as the CSV parser delivers them
SpecCsv == InitCsv /\ [][NextCsv]_vars

MaxMonths == 3

MaxEventCount == 3

\* the cpu averages of the months of a correlation dataset
CorrValues == {Rat(1, 10), Num(1), Num(2), Num(3)}

\* k events of month m of 2025
EventsOfMonth(m, k) == [i \in 1..k |-> Event(TsDay(2025, m, i), Outage, UNDEF)]

\* the events of the months 1 .. n, counts[m] of them in month m
RECURSIVE EventsOfMonths(_, _)
EventsOfMonths(counts, n) ==
    IF n = 0 THEN <<>> ELSE EventsOfMonths(counts, n - 1) \o EventsOfMonth(n, counts[n])

\* one record per month: the month's cpu average is the record's cpu_usage
InitCorr ==
    /\ \E n \in 1..MaxMonths :
          \E values \in [1..n -> CorrValues], counts \in [1..n -> 0..MaxEventCount] :
             /\ predictionsData =
                    [m \in 1..n |-> Record(TsDay(2025, m, 1), values[m], UNDEF, UNDEF,
                                           UNDEF, UNDEF)]
             /\ eventsData = EventsOfMonths(counts, n)
    /\ selectedMetric = "cpu"
    /\ eventFilter = AllFilter
    /\ today = AggToday
    /\ out = NothingRendered
    /\ ModalClosed
    /\ selectedDate = NoDate
    /\ eventsDefined = TRUE

NextCorr == RenderEventsChart

\* the events chart over datasets of one record per month
SpecCorr == InitCorr /\ [][NextCorr]_vars

\* the cpu and memory cells of the rows the page's views are rendered on: the
\* column absent, numbers on the cutoffs of the calendar, and the text of an
\* infinite value
ViewCpuCells == {UNDEF, Num(80), Num(40), Str(InfinityChars)}

ViewMemoryCells == {Num(80), Num(40)}

ViewRecords ==
    {Record(ts, cpu, memory, UNDEF, UNDEF, UNDEF) :
        ts \in {TsDay(2024, 12, 31), TsDay(2025, 1, 15)},
        cpu \in ViewCpuCells, memory \in ViewMemoryCells}

InitViews ==
    /\ predictionsData \in SeqsUpTo(ViewRecords, MaxRecords)
    /\ eventsData = <<Event(TsDay(2025, 1, 20), Outage, UNDEF)>>
    /\ selectedMetric = "cpu"
    /\ eventFilter = AllFilter
    /\ today = AggToday
    /\ out = NothingRendered
    /\ ModalClosed
    /\ selectedDate = NoDate
    /\ eventsDefined = TRUE

NextViews ==
    \/ RenderMetricsGrid
    \/ RenderCapacityChart
    \/ RenderMaintenance
    \/ RenderCalendar
    \/ RenderCalendarDay
    \/ RenderMonthly
    \/ RenderDaily
    \/ RenderEventsChart

\* every view of the page over small datasets, the empty one included
SpecViews == InitViews /\ [][NextViews]_vars

MaxBulk == 52

\* the rows of a large dataset: a busy cpu, a busy memory with an idle cpu, a
\* cpu just above the index threshold, a row without metrics, and a busy
\* network with an idle cpu
BulkKinds ==
    {Record(TsAbsent, kind[1], kind[2], kind[3], UNDEF, UNDEF) :
        kind \in {<<Num(90), UNDEF, UNDEF>>, <<Num(10), Num(90), UNDEF>>,
                  <<Num(76), UNDEF, UNDEF>>, <<UNDEF, UNDEF, UNDEF>>,
                  <<Num(10), UNDEF, Num(95)>>}}

\* the numbers of rows, around the trend windows (30, 60) and the limit of
\* high-usage days (50)
BulkSizes == {0, 1, 30, 31, 50, 51, MaxBulk}

\* the numbers of rows of the first kind
BulkSplits == {0, 1, 22, 50}

\* datasets of n rows, the first k of one kind and the others of another
InitBulk ==
    /\ \E n \in BulkSizes, k \in BulkSplits, first \in BulkKinds, others \in BulkKinds :
          /\ k <= n
          /\ predictionsData = [i \in 1..n |-> IF i <= k THEN first ELSE others]
    /\ eventsData = <<>>
    /\ selectedMetric = "cpu"
    /\ eventFilter = AllFilter
    /\ today = AggToday
    /\ out = NothingRendered
    /\ ModalClosed
    /\ selectedDate = NoDate
    /\ eventsDefined = TRUE

NextBulk ==
    \/ RenderMaintenance
    \/ RenderMetricsGrid

\* the whole-dataset statistics over datasets of up to MaxBulk rows
SpecBulk == InitBulk /\ [][NextBulk]_vars

\* the rows of the calendar's datasets: on the day before the range, on its
\* first and last day and on the day after it, with means of cpu and memory on
\* both sides of the three cutoffs
CalendarRecords ==
    {Record(ts, cpu, memory, UNDEF, UNDEF, UNDEF) :
        ts \in {TsDay(2024, 12, 30), TsDay(2024, 12, 31), TsDay(2025, 12, 30),
                TsDay(2025, 12, 31)},
        cpu \in {Num(0), Num(81), Num(100)}, memory \in {Num(41), Num(81)}}

InitCalendar ==
    /\ predictionsData \in SeqsUpTo(CalendarRecords, MaxRecords)
    /\ eventsData = <<>>
    /\ selectedMetric = "cpu"
    /\ eventFilter = AllFilter
    /\ today = AggToday
    /\ out = NothingRendered
    /\ ModalClosed
    /\ selectedDate = NoDate
    /\ eventsDefined = TRUE

NextCalendar ==
    \/ RenderCalendar
    \/ RenderCalendarDay

\* the calendar over datasets with rows inside and outside its range
SpecCalendar == InitCalendar /\ [][NextCalendar]_vars

Earthquake == Str(<<"e", "a", "r", "t", "h", "q", "u", "a", "k", "e">>)

HighSeverity == Str(<<"h", "i", "g", "h">>)

\* the rows of the datasets of the events chart: a month with events, a month
\* without, and a timestamp that is no date
EventChartRecords ==
    {Record(ts, Num(80), Num(60), UNDEF, UNDEF, UNDEF) :
        ts \in {TsGarbage, TsDay(2025, 1, 15), TsDay(2025, 2, 1)}}

\* the events: without timestamp, in a month with records, in a month without
\* records, of a type that counts as high severity, without type but marked
\* high, and with a timestamp that is no date
EventChartEvents ==
    {Event(ts, kind[1], kind[2]) :
        ts \in {TsAbsent, TsDay(2025, 1, 20), TsDay(2025, 3, 5)},
        kind \in {<<Outage, UNDEF>>, <<Earthquake, UNDEF>>, <<UNDEF, HighSeverity>>}}
      \cup {Event(TsGarbage, Outage, UNDEF)}

InitEvents ==
    /\ predictionsData \in SeqsUpTo(EventChartRecords, MaxRecords)
    /\ eventsData \in SeqsUpTo(EventChartEvents, MaxRecords)
    /\ selectedMetric = "cpu"
    /\ eventFilter = AllFilter
    /\ today = AggToday
    /\ out = NothingRendered
    /\ ModalClosed
    /\ selectedDate = NoDate
    /\ eventsDefined = TRUE

NextEvents ==
    \/ RenderEventsChart
    \/ SetEventFilter
    \/ SetSelectedMetric

\* the events chart over small datasets of records and events, under every
\* event filter and metric the selectors offer
SpecEvents == InitEvents /\ [][NextEvents]_vars

(***************************************************************************)
(* Index and FileUpload: loading a predictions file                        *)
(***************************************************************************)
\* a file the user can drop, with what the CSV parser makes of it: the rows and
\* the error messages of its result, or a read failure and its message
File(name, data, errors, unreadable) ==
    [name |-> name, data |-> data, errors |-> errors, unreadable |-> unreadable]

GoodRows ==
    <<Record(TsDay(2025, 1, 15), Str(<<"8", "0">>), Str(<<"9", "0">>), UNDEF, UNDEF, UNDEF),
      Record(TsDay(2025, 1, 16), Str(<<"4", "0">>), UNDEF, UNDEF, UNDEF, UNDEF)>>

OtherRows ==
    <<Record(TsDay(2024, 12, 31), Str(<<"4", "0">>), Str(<<"9", "0">>), UNDEF, UNDEF, UNDEF)>>

\* the rows the parser still delivers for the malformed file
PartialRows ==
    <<Record(TsDay(2025, 1, 15), Str(<<"n", "/", "a">>), UNDEF, UNDEF, UNDEF, UNDEF)>>

UploadFiles ==
    { File("predictions.csv", GoodRows, <<>>, FALSE),
      File("december.csv", OtherRows, <<>>, FALSE),
      File("empty.csv", <<>>, <<>>, FALSE),
      File("malformed.csv", PartialRows, <<"Too few fields", "Trailing quote">>, FALSE),
      File("unreadable.csv", <<>>, <<"File could not be read">>, TRUE) }

\* Index: hasData
hasData == Len(predictionsData) > 0

\* processFile: the status set before the file is handed to the parser
UploadingStatus(file) == FileStatus(file.name, "uploading", 0, <<>>, <<>>)

\* an error status that keeps the rows of the result
ErrorStatusWithData(file, message) == FileStatus(file.name, "error", 0, <<message>>, <<file.data>>)

\* the `complete` callback when results.errors is not empty, and the `error`
\* callback: { ...fileStatus, status: 'error', error: message }
ErrorStatus(file, message) == FileStatus(file.name, "error", 0, <<message>>, <<>>)

\* a complete status that leaves the rows out when the result has none
CompleteStatusIfRows(file) ==
    FileStatus(file.name, "complete", 100, <<>>, IF file.data = <<>> THEN <<>> ELSE <<file.data>>)

\* the `complete` callback without errors
CompleteStatus(file) == FileStatus(file.name, "complete", 100, <<>>, <<file.data>>)

\* FileUpload: canLoadData
canLoadData == predictionFile.status = "complete"

\* handleLoadData's condition predictionFile?.data (an array is truthy)
HasLoadableData(file) == file.status # "null" /\ file.data # <<>>

\* the header's and the welcome screen's upload buttons: setShowFileUpload(true)
OpenUpload ==
    /\ ~showFileUpload
    /\ showFileUpload' = TRUE
    /\ UNCHANGED <<predictionsData, eventsData, eventsDefined, selectedMetric, eventFilter, today,
                   predictionFile, parsing, selectedDate, lastDropped, out>>

\* a close that also discards the loaded dataset and the selected day
CloseUploadResetting ==
    /\ showFileUpload
    /\ showFileUpload' = FALSE
    /\ predictionsData' = <<>>
    /\ selectedDate' = NoDate
    /\ predictionFile' = NoFile
    /\ parsing' = {}
    /\ lastDropped' = ""
    /\ UNCHANGED <<eventsData, eventsDefined, selectedMetric, eventFilter, today, out>>

\* onClose: the modal unmounts, its state is discarded and the callbacks of the
\* parses still running no longer reach a mounted component
CloseUpload ==
    /\ showFileUpload
    /\ showFileUpload' = FALSE
    /\ predictionFile' = NoFile
    /\ parsing' = {}
    /\ lastDropped' = ""
    /\ UNCHANGED <<predictionsData, eventsData, eventsDefined, selectedMetric, eventFilter, today,
                   selectedDate, out>>

\* onPredictionsDrop -> processFile, up to the call of Papa.parse
DropFile ==
    /\ showFileUpload
    /\ \E acceptedFiles \in {<<>>} \cup {<<file>> : file \in UploadFiles} :
          IF acceptedFiles # <<>>
          THEN /\ predictionFile' = UploadingStatus(acceptedFiles[1])
               /\ parsing' = parsing \cup {acceptedFiles[1]}
               /\ lastDropped' = acceptedFiles[1].name
          ELSE UNCHANGED <<predictionFile, parsing, lastDropped>>
    /\ UNCHANGED <<predictionsData, eventsData, eventsDefined, selectedMetric, eventFilter, today,
                   showFileUpload, selectedDate, out>>

\* Papa.parse's `complete` callback
ParseComplete ==
    /\ \E file \in parsing :
          /\ ~file.unreadable
          /\ predictionFile' =
                IF Len(file.errors) > 0 THEN ErrorStatus(file, file.errors[1])
                ELSE CompleteStatus(file)
          /\ parsing' = parsing \ {file}
    /\ UNCHANGED <<predictionsData, eventsData, eventsDefined, selectedMetric, eventFilter, today,
                   showFileUpload, selectedDate, lastDropped, out>>

\* Papa.parse's `error` callback
ParseError ==
    /\ \E file \in parsing :
          /\ file.unreadable
          /\ predictionFile' = ErrorStatus(file, file.errors[1])
          /\ parsing' = parsing \ {file}
    /\ UNCHANGED <<predictionsData, eventsData, eventsDefined, selectedMetric, eventFilter, today,
                   showFileUpload, selectedDate, lastDropped, out>>

\* a state setter that appends the loaded rows to the current ones
AppendPredictions(current, predictions) == current \o predictions

\* Index.handleDataLoad: setPredictionsData(predictions), the new state
setPredictionsData(current, predictions) == predictions

\* a click on the Load button (disabled unless canLoadData): handleLoadData,
\* with Index.handleDataLoad and onClose
ClickLoad ==
    /\ showFileUpload
    /\ canLoadData
    /\ IF HasLoadableData(predictionFile)
       THEN /\ predictionsData' = setPredictionsData(predictionsData, predictionFile.data[1])
            /\ showFileUpload' = FALSE
            /\ predictionFile' = NoFile
            /\ parsing' = {}
            /\ lastDropped' = ""
       ELSE UNCHANGED <<predictionsData, showFileUpload, predictionFile, parsing, lastDropped>>
    /\ UNCHANGED <<eventsData, eventsDefined, selectedMetric, eventFilter, today, selectedDate, out>>

\* Index renders: the welcome screen without data, the dashboard with it
RenderIndex ==
    IF hasData THEN RenderMetricsGrid
    ELSE /\ out' = Rendered("welcome", FALSE, <<>>)
         /\ UNCHANGED <<predictionsData, eventsData, eventsDefined, selectedMetric, eventFilter, today,
                        showFileUpload, predictionFile, parsing, selectedDate,
                        lastDropped>>

\* the days the user picks in the calendar of the dashboard
PickedDays == {DateOf(today), DateOf(today + 15)}

\* InteractiveCalendar onSelect -> Index setSelectedDate
SelectDate ==
    /\ hasData
    /\ \E date \in PickedDays : selectedDate' = date
    /\ UNCHANGED <<predictionsData, eventsData, eventsDefined, selectedMetric, eventFilter, today,
                   showFileUpload, predictionFile, parsing, lastDropped, out>>

InitUpload ==
    /\ predictionsData = <<>>
    /\ eventsData = <<>>
    /\ selectedMetric = "cpu"
    /\ eventFilter = AllFilter
    /\ today = AggToday
    /\ out = NothingRendered
    /\ ModalClosed
    /\ selectedDate = NoDate
    /\ eventsDefined = TRUE

NextUpload ==
    \/ OpenUpload
    \/ CloseUpload
    \/ DropFile
    \/ ParseComplete
    \/ ParseError
    \/ ClickLoad
    \/ SelectDate
    \/ RenderIndex

\* the page from its first render through any uploads
SpecUpload == InitUpload /\ [][NextUpload]_vars

(***************************************************************************)
(* The events-enabled page: Index with the events state, the status bar    *)
(* and ExternalEventsChart, and the same FileUpload dialog.                *)
(***************************************************************************)
\* the page is mounted: no render of it has thrown (the page has no error
\* boundary, so an error thrown while rendering unmounts it)
PageMounted == ~(out.view = "eventsPage" /\ out.threw)

\* the argument list of FileUpload.handleLoadData's call onDataLoad(predictionFile.data)
LoadArguments(file) == <<file.data[1]>>

\* the value a handler's parameter has under an argument list: the argument at
\* its position, or undefined
Parameter(arguments, position) ==
    IF position <= Len(arguments)
    THEN [defined |-> TRUE, value |-> arguments[position]]
    ELSE [defined |-> FALSE, value |-> <<>>]

\* a click on the Load button of the dialog on the events-enabled page:
\* handleLoadData calls handleDataLoad(predictions, events), which sets both
\* states and then reads predictions.length and events.length for the toast;
\* onClose() runs only if handleDataLoad returns
ClickLoadEventsPage ==
    /\ showFileUpload
    /\ canLoadData
    /\ IF HasLoadableData(predictionFile)
       THEN \E predictions \in {Parameter(LoadArguments(predictionFile), 1)} :
            \E events \in {Parameter(LoadArguments(predictionFile), 2)} :
               /\ predictionsData' = setPredictionsData(predictionsData, predictions.value)
               /\ eventsDefined' = events.defined
               /\ eventsData' = events.value
               /\ out' = Rendered("handleDataLoad", ~events.defined, <<>>)
               /\ IF events.defined
                  THEN /\ showFileUpload' = FALSE
                       /\ predictionFile' = NoFile
                       /\ parsing' = {}
                       /\ lastDropped' = ""
                  ELSE UNCHANGED <<showFileUpload, predictionFile, parsing, lastDropped>>
       ELSE UNCHANGED <<predictionsData, eventsData, eventsDefined, showFileUpload,
                        predictionFile, parsing, lastDropped, out>>
    /\ UNCHANGED <<selectedMetric, eventFilter, today, selectedDate>>

\* the events-enabled Index renders: the welcome screen without predictions,
\* otherwise the dashboard, whose status bar reads predictionsData.length and
\* eventsData.length
RenderEventsPage ==
    /\ out' =
          IF ~hasData THEN Rendered("eventsPage", FALSE, [screen |-> "welcome"])
          ELSE IF ~eventsDefined THEN Rendered("eventsPage", TRUE, [screen |-> "dashboard"])
          ELSE Rendered("eventsPage", FALSE,
                        [screen |-> "dashboard",
                         predictions |-> Len(predictionsData),
                         events |-> Len(eventsData)])
    /\ UNCHANGED <<predictionsData, eventsData, eventsDefined, selectedMetric, eventFilter,
                   today, showFileUpload, predictionFile, parsing, selectedDate,
                   lastDropped>>

InitEventsPage ==
    /\ predictionsData = <<>>
    /\ eventsData = <<>>
    /\ eventsDefined = TRUE
    /\ selectedMetric = "cpu"
    /\ eventFilter = AllFilter
    /\ today = AggToday
    /\ out = NothingRendered
    /\ ModalClosed
    /\ selectedDate = NoDate

NextEventsPage ==
    \/ PageMounted /\ OpenUpload
    \/ PageMounted /\ CloseUpload
    \/ PageMounted /\ DropFile
    \/ PageMounted /\ ParseComplete
    \/ PageMounted /\ ParseError
    \/ PageMounted /\ ClickLoadEventsPage
    \/ PageMounted /\ RenderEventsPage

\* the events-enabled page from its first render through any uploads
SpecEventsPage == InitEventsPage /\ [][NextEventsPage]_vars

(***************************************************************************)
(* Properties                                                              *)
(***************************************************************************)
\* the records of the month with this key among those with a truthy timestamp
RecordsOfMonth(data, key) ==
    SelectSeq(data, LAMBDA r : TsTruthy(r.timestamp) /\ MonthKey(NewDate(r.timestamp)) = key)

\* the month keys of the records with a truthy timestamp ("NaN-NaN" for a text
\* that is no date)
TimestampedMonthKeys(data) ==
    {MonthKey(NewDate(data[i].timestamp)) :
        i \in {j \in 1..Len(data) : TsTruthy(data[j].timestamp)}}

\* the month keys of the records whose timestamp is a date
ParseableMonthKeys(data) ==
    {MonthKey(NewDate(data[i].timestamp)) :
        i \in {j \in 1..Len(data) : NewDate(data[j].timestamp).valid}}

\* every record has a timestamp that is a date
AllDated(data) == \A i \in 1..Len(data) : NewDate(data[i].timestamp).valid

KeysOf(buckets) == {buckets[i].month : i \in 1..Len(buckets)}

\* the place of a key in time: year * 12 + month, and after every month for a
\* key that is not made of digits
MonthOrdinal(key) ==
    IF IsDigit(key[1]) THEN DigitsToNat(key, 1, 4) * 12 + DigitsToNat(key, 6, 7)
    ELSE 10000 * 12

StrictlyAscending(buckets) ==
    \A i \in 1..(Len(buckets) - 1) :
        MonthOrdinal(buckets[i].month) < MonthOrdinal(buckets[i + 1].month)

OneBucketPerKey(buckets, keys) ==
    Len(buckets) = Cardinality(keys) /\ KeysOf(buckets) = keys

\* the buckets of the month-keyed views
MonthBuckets == IF out.view = "monthly" THEN out.value ELSE out.value.correlatedData

MetricFields == {"cpu_usage", "memory_usage", "network_traffic"}

C2_DailyOneBucketPerDayAscending ==
    (out.view = "daily" /\ ~out.threw /\ AllDated(predictionsData)) =>
        /\ \A i, j \in 1..Len(out.value) :
              i # j => ~isSameDay(out.value[i].fullDate, out.value[j].fullDate)
        /\ \A i, j \in 1..Len(out.value) :
              (i < j /\ out.value[i].fullDate.valid /\ out.value[j].fullDate.valid)
                  => out.value[i].fullDate.day <= out.value[j].fullDate.day

\* C3 as stated: every mean of a month bucket of dated records is the sum over
\* all the records of the month, 0 for a missing field, divided by the number
\* of those records
C3_MeanOverAllRecords ==
    ((out.view = "monthly" \/ (out.view = "events" /\ eventsData # <<>>))
        /\ AllDated(predictionsData)) =>
        \A i \in 1..Len(MonthBuckets) :
            /\ MonthBuckets[i].cpu_avg =
                  FieldAverage(RecordsOfMonth(predictionsData, MonthBuckets[i].month),
                               "cpu_usage")
            /\ MonthBuckets[i].memory_avg =
                  FieldAverage(RecordsOfMonth(predictionsData, MonthBuckets[i].month),
                               "memory_usage")
            /\ MonthBuckets[i].network_avg =
                  FieldAverage(RecordsOfMonth(predictionsData, MonthBuckets[i].month),
                               "network_traffic")
            /\ MonthBuckets[i].power_avg =
                  FieldAverage(RecordsOfMonth(predictionsData, MonthBuckets[i].month),
                               "power_consumption")

\* (current - previous) / previous * 100 to two decimals, 0 for previous = 0
ExpectedGrowth(current, previous) ==
    IF previous = Num(0) THEN Num(0)
    ELSE Fixed2(Times(Div(Minus(current, previous), previous), Num(100)))

\* the growth field of a daily point that belongs to a field of the records
GrowthOf(point, field) ==
    CASE field = "cpu_usage" -> point.cpu_growth
      [] field = "memory_usage" -> point.memory_growth
      [] field = "network_traffic" -> point.network_growth

\* C4 as stated: from the second point on, the growth of a daily point is
\* (current - previous) / previous * 100 for every previous value other than 0,
\* a negative one included, and 0 for the previous value 0
C4_GrowthFromPrevious ==
    (out.view = "daily" /\ ~out.threw) =>
        \A i \in 2..Len(out.value) : \A field \in MetricFields :
            GrowthOf(out.value[i], field) =
                ExpectedGrowth(Or(predictionsData[i][field], Num(0)),
                               Or(predictionsData[i - 1][field], Num(0)))

\* the growth column that belongs to a field of the records
GrowthColumn(field) ==
    CASE field = "cpu_usage" -> "cpu_usage_growth_pct"
      [] field = "memory_usage" -> "memory_usage_growth_pct"
      [] field = "network_traffic" -> "network_traffic_growth_pct"

\* the mean of a growth column over the records of a month that carry it, 0
\* when none does
UploadedGrowth(data, key, column) ==
    With(SelectSeq(RecordsOfMonth(data, key), LAMBDA r : r[column] # UNDEF), LAMBDA rs :
        AverageOrZero([i \in 1..Len(rs) |-> Or(parseFloat(rs[i][column]), Num(0))]))

RECURSIVE CountDated(_)
CountDated(data) ==
    IF data = <<>> THEN 0
    ELSE CountDated(Tail(data)) + (IF NewDate(Head(data).timestamp).valid THEN 1 ELSE 0)

\* C6 as stated: a record whose timestamp is absent or no date is in no bucket
\* of the monthly series, of the daily series, of correlatedData or of the
\* calendar, and is counted in totalInputs
C6_UndatedRecordsInNoBucket ==
    /\ (out.view = "monthly" \/ (out.view = "events" /\ eventsData # <<>>)) =>
          KeysOf(MonthBuckets) = ParseableMonthKeys(predictionsData)
    /\ (out.view = "daily" /\ ~out.threw) => Len(out.value) = CountDated(predictionsData)
    /\ out.view = "calendar" =>
          \A i \in 1..Len(out.value) :
              \E j \in 1..Len(predictionsData) :
                  isSameDay(NewDate(predictionsData[j].timestamp), out.value[i].date)
    /\ (out.view = "metrics" /\ ~out.value.isNull) =>
          out.value.totalInputs = Len(predictionsData)

\* C7 as stated: no view raises an error, and the averages of the metrics grid
\* and of the maintenance view are the means of the field values with 0 for an
\* absent or non-numeric one
C7_FieldsAveragedAsNumbers ==
    /\ ~out.threw
    /\ (out.view = "metrics" /\ ~out.value.isNull) =>
          /\ out.value.cpuAvg = ParsedAverage(predictionsData, "cpu_usage")
          /\ out.value.memoryAvg = ParsedAverage(predictionsData, "memory_usage")
    /\ (out.view = "maintenance" /\ predictionsData # <<>>) =>
          /\ out.value.avgCpuUsage = ParsedAverage(predictionsData, "cpu_usage")
          /\ out.value.avgMemoryUsage = ParsedAverage(predictionsData, "memory_usage")

\* the points that enter the correlation
CorrelationPoints == ValidData(out.value.filteredData, selectedMetric)

\* whether all the points have the same value of this key
ZeroVariance(points, key) == \A i, j \in 1..Len(points) : points[i][key] = points[j][key]

\* C8 as stated: the coefficient is exactly 0 when fewer than 2 points enter
\* the computation or when the metric values or the event counts are all equal
C8_ZeroForDegenerateInput ==
    (out.view = "events"
        /\ (\/ Len(CorrelationPoints) < 2
            \/ ZeroVariance(CorrelationPoints, getMetricData(selectedMetric))
            \/ ZeroVariance(CorrelationPoints, "event_count")))
        => out.value.correlation = DZero

DOne == DFromInt(1)

\* C9 as stated: the coefficient of at least 2 points with nonzero variance of
\* both the metric values and the event counts is finite and not above 1 in
\* absolute value
C9_CoefficientWithinUnitInterval ==
    (out.view = "events"
        /\ Len(CorrelationPoints) >= 2
        /\ ~ZeroVariance(CorrelationPoints, getMetricData(selectedMetric))
        /\ ~ZeroVariance(CorrelationPoints, "event_count"))
        => /\ out.value.correlation.k = "finite"
           /\ ~DLess(DOne, DAbs(out.value.correlation))

\* whether the event counts are an affine function of the metric values with a
\* slope of this sign, the metric values not all equal: the points lie on one
\* line, and two points differ in both coordinates, in the direction of the
\* sign, or in none
Affine(points, key, sign) ==
    /\ ~ZeroVariance(points, key)
    /\ \A i, j \in 1..Len(points) :
          IF points[i][key] = points[j][key]
          THEN points[i].event_count = points[j].event_count
          ELSE NumSign(Times(Minus(points[i].event_count, points[j].event_count),
                             Minus(points[i][key], points[j][key]))) = sign
    /\ \A i, j, k \in 1..Len(points) :
          Times(Minus(points[i].event_count, points[j].event_count),
                Minus(points[i][key], points[k][key]))
              = Times(Minus(points[i].event_count, points[k].event_count),
                      Minus(points[i][key], points[j][key]))

\* the tolerance of the comparison with 1 and -1: 2^-40
Tolerance == Dbl(1, <<1>>, -40)

\* |a - b| is below the tolerance
Near(a, b) == a.k = "finite" /\ DLess(DAbs(DSub(a, b)), Tolerance)

\* the metric and event values of the points, as plain numbers
MetricValuesAre(values) ==
    /\ Len(CorrelationPoints) = Len(values)
    /\ \A i \in 1..Len(values) :
          CorrelationPoints[i][getMetricData(selectedMetric)] = Num(values[i])

EventCountsAre(values) ==
    /\ Len(CorrelationPoints) = Len(values)
    /\ \A i \in 1..Len(values) : CorrelationPoints[i].event_count = Num(values[i])

C11_PearsonOverEveryBucket ==
    (out.view = "events" /\ Len(out.value.filteredData) >= 2) =>
        out.value.correlation =
            Pearson(FieldValues(out.value.filteredData, getMetricData(selectedMetric)),
                    FieldValues(out.value.filteredData, "event_count"))

\* whether the magnitude of the double r is above the fraction p / q, compared
\* exactly
MagnitudeAbove(r, p, q) ==
    \/ r.k = "Infinity"
    \/ /\ r.k = "finite"
       /\ IF r.e >= 0
          THEN BigCmp(BigShl(BigMulSmall(r.m, q), r.e), BigFromNat(p)) > 0
          ELSE BigCmp(BigMulSmall(r.m, q), BigShl(BigFromNat(p), -r.e)) > 0

\* C12: the strength shown is 'Strong' when |r| > 0.5, 'Moderate' when
\* 0.3 < |r| <= 0.5 and 'Weak' otherwise, r and -r get the same strength, and
\* the coefficient 0 is 'Weak'
C12_StrengthByMagnitude ==
    out.view = "events" =>
        /\ out.value.strength =
              (IF MagnitudeAbove(out.value.correlation, 1, 2) THEN "Strong"
               ELSE IF MagnitudeAbove(out.value.correlation, 3, 10) THEN "Moderate"
               ELSE "Weak")
        /\ CorrelationStrength(DNeg(out.value.correlation)) = out.value.strength
        /\ out.value.correlation = DZero => out.value.strength = "Weak"

\* C12 witness: a negative coefficient of moderate strength
C12_Witness ==
    /\ out.view = "events"
    /\ out.value.correlation.sg < 0
    /\ out.value.strength = "Moderate"

\* the tier of a mean under inclusive lower cutoffs: 3 from 80, 2 from 60, 1
\* from 40, 0 below
InclusiveTier(mean) ==
    IF ~Gt(Num(80), mean) THEN 3
    ELSE IF ~Gt(Num(60), mean) THEN 2
    ELSE IF ~Gt(Num(40), mean) THEN 1
    ELSE 0

\* C13 as stated: the intensity of a day with data is the tier of the mean of
\* its cpu and memory averages under the inclusive cutoffs 80 / 60 / 40, so
\* that a mean of exactly 80 is tier 3, exactly 60 tier 2 and exactly 40 tier 1
C13_IntensityInclusiveCutoffs ==
    (out.view = "intensity" /\ out.value.dayData.found
        /\ out.value.dayData.item.cpu_avg.t = "number") =>
        out.value.intensity =
            InclusiveTier(Div(Plus(out.value.dayData.item.cpu_avg,
                                   out.value.dayData.item.memory_avg), Num(2)))

\* whether a field of a record, 0 when it is missing, is at or above a cutoff
AtOrAbove(value, cutoff) ==
    With(ToNumber(Or(value, Num(0))), LAMBDA x :
        \/ x.t = "Infinity" /\ x.n > 0
        \/ x.t = "number" /\ x.n >= cutoff * x.d)

\* C14 as stated: highLoadDays is the number of records with cpu_usage at or
\* above 80, memory_usage at or above 85 or network_traffic at or above 90; a
\* record without the three fields is not counted
C14_HighLoadInclusiveCutoffs ==
    (out.view = "metrics" /\ ~out.value.isNull) =>
        out.value.highLoadDays =
            Cardinality({i \in 1..Len(predictionsData) :
                            \/ AtOrAbove(predictionsData[i].cpu_usage, 80)
                            \/ AtOrAbove(predictionsData[i].memory_usage, 85)
                            \/ AtOrAbove(predictionsData[i].network_traffic, 90)})

\* the severity and the status of the task with this id, "none" when the list
\* has no such task
TaskField(tasks, id, field) ==
    IF \E i \in 1..Len(tasks) : tasks[i].id = id
    THEN tasks[CHOOSE i \in 1..Len(tasks) : tasks[i].id = id][field]
    ELSE "none"

\* the severities and statuses of the three tasks as the thresholds give them
ThresholdsDecide(tasks, highUsageDays, avgCpuUsage) ==
    /\ Len(tasks) = 3
    /\ TaskField(tasks, "vacuum", "severity")
          = (IF highUsageDays > HighUsageDaysLimit THEN "high" ELSE "medium")
    /\ TaskField(tasks, "vacuum", "status")
          = (IF highUsageDays > HighUsageDaysLimit THEN "Required" ELSE "Scheduled")
    /\ TaskField(tasks, "index", "severity")
          = (IF Gt(avgCpuUsage, Num(75)) THEN "medium" ELSE "low")
    /\ TaskField(tasks, "index", "status")
          = (IF Gt(avgCpuUsage, Num(75)) THEN "Recommended" ELSE "Optimal")
    /\ TaskField(tasks, "statistics", "severity") = "medium"
    /\ TaskField(tasks, "statistics", "status") = "Scheduled"

\* the number of rows with cpu_usage above 80 or memory_usage above 85
HighUsageDays(data) ==
    Cardinality({i \in 1..Len(data) :
                    \/ Gt(Or(data[i].cpu_usage, Num(0)), Num(80))
                    \/ Gt(Or(data[i].memory_usage, Num(0)), Num(85))})

EmptyOutput(view, value) ==
    CASE view = "monthly" -> value = <<>>
      [] view = "daily" -> value = <<>>
      [] view = "events" ->
            /\ value.correlatedData = <<>>
            /\ value.filteredData = <<>>
            /\ value.correlation = DZero
      [] view = "calendar" -> value = <<>>
      [] view = "intensity" -> ~value.dayData.found /\ value.intensity = 0
      [] view = "metrics" -> value.isNull
      [] view = "capacity" -> value.points = <<>> /\ value.averageInputs = Num(0)
      [] view = "maintenance" -> TRUE
      [] view = "none" -> TRUE

C17_SameRecordsSameDerivedData ==
    [][(/\ predictionsData' = predictionsData
        /\ out'.view = out.view
        /\ out.view = "intensity" => out'.value.date = out.value.date)
          => out' = out]_vars

\* the file of UploadFiles with this name
FileNamed(name) == CHOOSE file \in UploadFiles : file.name = name

\* the rows the parser delivered for the files that failed to parse
FailedRows ==
    UNION {{file.data[i] : i \in 1..Len(file.data)} :
             file \in {f \in UploadFiles : f.unreadable \/ Len(f.errors) > 0}}

\* C18: a file whose parse reported errors gets the status 'error' with the
\* first reported message and no data, the Load button is then disabled and
\* handleLoadData would do nothing; no row of a failed file is ever part of
\* the page's predictions dataset
C18_FailedFileNeverCommitted ==
    /\ predictionFile.status = "error" =>
          /\ predictionFile.error = <<FileNamed(predictionFile.name).errors[1]>>
          /\ predictionFile.data = <<>>
          /\ ~canLoadData
          /\ ~HasLoadableData(predictionFile)
    /\ predictionFile.status \in {"uploading", "null"} => ~canLoadData
    /\ \A i \in 1..Len(predictionsData) : predictionsData[i] \notin FailedRows

\* C18 witness: with an earlier file loaded, the malformed file was dropped and
\* its parse has reported two errors and partial rows
C18_Witness ==
    /\ showFileUpload
    /\ predictionFile.status = "error"
    /\ Len(FileNamed(predictionFile.name).errors) > 1
    /\ FileNamed(predictionFile.name).data # <<>>
    /\ hasData

\* the average fields of a month bucket and the columns they are taken over
AverageColumns ==
    {<<"cpu_avg", "cpu_usage">>, <<"memory_avg", "memory_usage">>,
     <<"network_avg", "network_traffic">>, <<"power_avg", "power_consumption">>}

\* whether no record of the sequence carries the column
NoneCarries(records, column) == \A j \in 1..Len(records) : records[j][column] = UNDEF

\* whether every value of the column in the records parses to a finite number
\* or to no number at all
AllCellsFinite(records, column) ==
    \A j \in 1..Len(records) :
        records[j][column] = UNDEF \/ parseFloat(records[j][column]).t \in {"number", "NaN"}

\* C19 (as the code has it): no average of a month bucket of the monthly series
\* or of correlatedData is NaN; it is 0 when no record of the month carries the
\* column, and a finite number when every cell of the column in the month
\* parses to a finite number or to none
C19_BucketAveragesNeverNaN ==
    (out.view = "monthly" \/ out.view = "events") =>
        \A i \in 1..Len(MonthBuckets) : \A pair \in AverageColumns :
            With2(MonthBuckets[i][pair[1]],
                  RecordsOfMonth(predictionsData, MonthBuckets[i].month),
                  LAMBDA average, records :
                /\ average.t \in {"number", "Infinity"}
                /\ NoneCarries(records, pair[2]) => average = Num(0)
                /\ AllCellsFinite(records, pair[2]) => average.t = "number")

\* C19 witness: a month of the monthly series whose records carry a memory
\* value but no cpu value, with cpu average 0
C19_Witness ==
    /\ out.view = "monthly"
    /\ Len(out.value) > 0
    /\ NoneCarries(RecordsOfMonth(predictionsData, out.value[1].month), "cpu_usage")
    /\ out.value[1].cpu_avg = Num(0)
    /\ out.value[1].memory_avg = Num(80)

\* C19 as stated: every average of a month bucket is a finite number
C19_AsStated ==
    (out.view = "monthly" \/ out.view = "events") =>
        \A i \in 1..Len(MonthBuckets) : \A pair \in AverageColumns :
            MonthBuckets[i][pair[1]].t = "number"

\* the cpu average of the previous window of the trend, data.slice(-60, -30)
PreviousCpuAverage(data) ==
    FieldAverage(SliceFromEnd(data, -2 * TrendWindow, -TrendWindow), "cpu_usage")

\* C20 as stated: for a non-empty dataset the trend percentage of the metrics
\* grid is the text of a finite number, and of 0 when the dataset has at most
\* TrendWindow rows or the cpu average of the previous window is 0
C20_TrendPercentFinite ==
    (out.view = "metrics" /\ ~out.threw /\ ~out.value.isNull) =>
        /\ ToNumber(out.value.trendPercent).t = "number"
        /\ (\/ Len(predictionsData) <= TrendWindow
            \/ PreviousCpuAverage(predictionsData) = Num(0)) =>
              ToNumber(out.value.trendPercent) = Num(0)

\* what Index shows for a dataset: the welcome screen, or the dashboard
IndexOutput(data) ==
    IF Len(data) > 0 THEN Rendered("metrics", FALSE, calculateMetrics(data))
    ELSE Rendered("welcome", FALSE, <<>>)

C22_LatestDropWins ==
    (showFileUpload /\ parsing = {} /\ lastDropped # "") =>
        /\ predictionFile.name = lastDropped
        /\ HasLoadableData(predictionFile) =>
              predictionFile.data[1] = FileNamed(lastDropped).data

\* the events with a timestamp whose month key is this one, in their order
EventsOfKey(events, key) ==
    SelectSeq(events, LAMBDA e : TsTruthy(e.timestamp) /\ MonthKey(NewDate(e.timestamp)) = key)

RECURSIVE SumEventCounts(_)
SumEventCounts(buckets) ==
    IF buckets = <<>> THEN 0 ELSE Head(buckets).event_count.n + SumEventCounts(Tail(buckets))

\* C23: the buckets of correlatedData are those of the records alone; the events
\* of a bucket are exactly the events with a timestamp whose month key is the
\* bucket's, so an event without timestamp or of a month without records is in
\* no bucket, and the event counts add up to the number of events with a
\* timestamp whose month key has a bucket
C23_EventsAttachedByMonthKey ==
    (out.view = "events" /\ eventsData # <<>>) =>
        With(out.value.correlatedData, LAMBDA buckets :
            /\ KeysOf(buckets) = TimestampedMonthKeys(predictionsData)
            /\ \A i \in 1..Len(buckets) :
                  /\ buckets[i].events = EventsOfKey(eventsData, buckets[i].month)
                  /\ buckets[i].event_count = Num(Len(buckets[i].events))
            /\ SumEventCounts(buckets) =
                  Cardinality({j \in 1..Len(eventsData) :
                                  /\ TsTruthy(eventsData[j].timestamp)
                                  /\ MonthKey(NewDate(eventsData[j].timestamp)) \in KeysOf(buckets)}))

\* C23 witness: of two events, the one of January is in the bucket of January
\* and the one of March, a month without records, is in none
C23_Witness ==
    /\ out.view = "events"
    /\ Len(out.value.correlatedData) = 1
    /\ Len(eventsData) = 2
    /\ eventsData[1].timestamp = TsDay(2025, 3, 5)
    /\ eventsData[2].timestamp = TsDay(2025, 1, 20)
    /\ out.value.correlatedData[1].events = <<eventsData[2]>>

\* C24 as stated: in every bucket the chart displays (filteredData, under the
\* event filter in force) the high-severity count is at most the event count,
\* the event count is the length of the bucket's events list, and the impact
\* is 5 * event_count + 15 * high_severity_events
C24_BucketCountsConsistent ==
    out.view = "events" =>
        \A i \in 1..Len(out.value.filteredData) :
            With(out.value.filteredData[i], LAMBDA bucket :
                /\ bucket.high_severity_events.n <= bucket.event_count.n
                /\ bucket.event_count = Num(Len(bucket.events))
                /\ bucket.event_impact =
                      Num(5 * bucket.event_count.n + 15 * bucket.high_severity_events.n))

AverageFields == {"cpu_avg", "memory_avg", "network_avg", "power_avg"}

\* whether the filtered buckets are the correlated ones, month by month, with
\* the same averages and with the events of the type of the filter
FilterKeepsBuckets(correlated, filtered, filter) ==
    /\ Len(filtered) = Len(correlated)
    /\ \A i \in 1..Len(correlated) :
          /\ filtered[i].month = correlated[i].month
          /\ \A field \in AverageFields : filtered[i][field] = correlated[i][field]
          /\ filter # AllFilter =>
                filtered[i].events = SelectSeq(correlated[i].events, LAMBDA e : e.type = filter)
    /\ filter = AllFilter => filtered = correlated

\* C25: every render of the events chart shows the buckets of correlatedData,
\* in their order and with their averages, holding the events of the type of
\* the filter (all of them under 'all'); a change of the filter leaves
\* correlatedData as it was and a change of the metric leaves correlatedData
\* and filteredData as they were
C25_FilterAndMetricFrame ==
    [][out'.view = "events" =>
          /\ FilterKeepsBuckets(out'.value.correlatedData, out'.value.filteredData,
                                eventFilter')
          /\ out.view = "events" =>
                /\ out'.value.correlatedData = out.value.correlatedData
                /\ eventFilter' = eventFilter =>
                      out'.value.filteredData = out.value.filteredData]_vars

\* C25 witness: under the filter 'outage' and the metric 'memory' a bucket shows
\* one of its two events
C25_Witness ==
    /\ out.view = "events"
    /\ eventFilter = Outage
    /\ selectedMetric = "memory"
    /\ \E i \in 1..Len(out.value.filteredData) :
          /\ Len(out.value.correlatedData[i].events) = 2
          /\ Len(out.value.filteredData[i].events) = 1
    /\ \E i \in 1..Len(out.value.filteredData) : out.value.filteredData[i].events = <<>>

\* C26: closing the dialog (onClose), whatever it holds, leaves the predictions
\* dataset and the selected date as they were, and so does every step that
\* closes it while the Load button is disabled; the dataset changes only in a
\* step that closes the dialog with the Load button enabled, and then becomes
\* the rows the dialog holds; no step of the dialog changes the selected date
C26_CloseLeavesDatasetAndDate ==
    [][/\ CloseUpload =>
             /\ predictionsData' = predictionsData
             /\ selectedDate' = selectedDate
       /\ (showFileUpload /\ ~showFileUpload' /\ ~canLoadData) =>
             /\ predictionsData' = predictionsData
             /\ selectedDate' = selectedDate
       /\ predictionsData' # predictionsData =>
             /\ showFileUpload /\ ~showFileUpload' /\ canLoadData
             /\ predictionsData' = predictionFile.data[1]
       /\ selectedDate' # selectedDate =>
             UNCHANGED <<showFileUpload, predictionFile, parsing, predictionsData>>]_vars

\* C26 witness: with a dataset loaded and a day selected, the dialog is open on
\* a failed file while another parse is still running
C26_Witness ==
    /\ showFileUpload
    /\ hasData
    /\ selectedDate # NoDate
    /\ predictionFile.status = "error"
    /\ parsing # {}

\* C27: in the open dialog a status 'complete' holds the parsed rows (an empty
\* list included) and progress 100, a status 'uploading' or 'error' holds no
\* rows, and before the first drop there is no status; so the Load button is
\* enabled exactly when handleLoadData would commit
C27_StatusAndDataAgree ==
    /\ predictionFile.status \in {"null", "uploading", "complete", "error"}
    /\ predictionFile.status = "complete" =>
          /\ predictionFile.data = <<FileNamed(predictionFile.name).data>>
          /\ predictionFile.progress = 100
    /\ predictionFile.status \in {"null", "uploading", "error"} => predictionFile.data = <<>>
    /\ canLoadData <=> HasLoadableData(predictionFile)
    /\ ~showFileUpload => predictionFile = NoFile

\* C27 witness: the dialog shows a file without rows as complete, so that Load
\* is enabled on an empty list
C27_Witness ==
    /\ showFileUpload
    /\ canLoadData
    /\ predictionFile.data = <<(<<>>)>>
    /\ predictionFile.progress = 100

\* C28: on every dataset the number of high-usage days the maintenance view
\* counts is at most the number of high-load days the metrics grid shows,
\* which is at most the number of rows; and when the vacuum task is 'high' the
\* metrics grid computes more than HighUsageDaysLimit high-load days on the
\* same dataset
C28_HighUsageWithinHighLoad ==
    /\ (out.view = "metrics" /\ ~out.value.isNull) =>
          /\ CountHighUsageDays(predictionsData) <= out.value.highLoadDays
          /\ out.value.highLoadDays <= Len(predictionsData)
    /\ (out.view = "maintenance" /\ predictionsData # <<>>) =>
          (TaskField(out.value.tasks, "vacuum", "severity") = "high" =>
              calculateMetrics(predictionsData).highLoadDays > HighUsageDaysLimit)

\* C28 witness: the vacuum task is 'high' on 52 rows of which 51 have a busy cpu
\* or memory and the other one a busy network only
C28_Witness ==
    /\ out.view = "maintenance"
    /\ Len(predictionsData) = MaxBulk
    /\ TaskField(out.value.tasks, "vacuum", "severity") = "high"
    /\ CountHighUsageDays(predictionsData) < CountHighLoadDays(predictionsData)

\* means of cpu and memory around the three cutoffs
ProbeMeans == {Num(0), Num(40), Rat(81, 2), Num(60), Num(61), Num(80), Num(81), Num(100)}

\* whether the day lies in the range of the calendar, the CalendarDays days
\* from today on
InCalendarRange(date) == date.day >= today /\ date.day < today + CalendarDays

\* C29: getDateIntensity returns a tier 0..3 for every displayed day without
\* raising an error; for a day with an entry the tier is the one of the mean of
\* its cpu and memory averages and no lower mean has a higher tier, no higher
\* mean a lower one; a day has an entry iff it lies in the range of the
\* calendar and a record falls on it, and every other day, one with records
\* outside the range included, has tier 0 and no details
C29_IntensityTotalMonotone ==
    out.view = "intensity" =>
        /\ ~out.threw
        /\ out.value.intensity \in 0..3
        /\ out.value.dayData.found <=>
              (InCalendarRange(out.value.date)
                  /\ DayData(predictionsData, out.value.date) # <<>>)
        /\ ~out.value.dayData.found => out.value.intensity = 0
        /\ out.value.dayData.found =>
              With(Div(Plus(out.value.dayData.item.cpu_avg,
                            out.value.dayData.item.memory_avg), Num(2)), LAMBDA mean :
                  /\ out.value.intensity = IntensityOf(mean)
                  /\ \A other \in ProbeMeans :
                        /\ Gt(mean, other) => IntensityOf(other) <= out.value.intensity
                        /\ Gt(other, mean) => IntensityOf(other) >= out.value.intensity)

\* C29 witness: the day after the last day of the range has a record with a
\* mean above 80, and its tier is 0 with no details
C29_Witness ==
    /\ out.view = "intensity"
    /\ out.value.date = DateOf(today + CalendarDays)
    /\ \E i \in 1..Len(predictionsData) :
          /\ predictionsData[i].timestamp = TsDay(2025, 12, 31)
          /\ predictionsData[i].cpu_usage = Num(100)
          /\ predictionsData[i].memory_usage = Num(81)
    /\ out.value.intensity = 0
    /\ ~out.value.dayData.found

\* C30: on the events-enabled page no Load raises an error, the events state
\* is an array in every state, and no render of the page raises an error
C30_LoadLeavesDefinedArrays ==
    /\ out.view = "handleDataLoad" => ~out.threw
    /\ eventsDefined
    /\ out.view = "eventsPage" => ~out.threw
====
